---- MODULE Spec2Model ----
(***************************************************************************)
(* The OAuth authorization-code relay of remote-mcp-server-authless.       *)
(*                                                                         *)
(* Two deployments are in the source and both are modelled, selected by    *)
(* the variable `variant`:                                                 *)
(*   "federated": src/src/index.ts with the handler of src/unnamed/part_000*)
(*                (named export cognitoHandler, Google + Cognito GetId,    *)
(*                tokenStore, verifyMCPToken);                             *)
(*   "direct":    src/unnamed/part_001 with the handler of                 *)
(*                src/src/cognito-handler.ts (default export, Cognito      *)
(*                userinfo, no token store).                               *)
(*                                                                         *)
(* JavaScript strings are sequences of UTF-16 code units (naturals).       *)
(* JavaScript values are records tagged by the field t.                    *)
(***************************************************************************)
EXTENDS Integers, Sequences, FiniteSets, TLC

(***************************************************************************)
(* String literals of the source, as code units.                           *)
(***************************************************************************)
\* String constants.
S ==
    [ null |->      \* "null"
        <<110, 117, 108, 108>>,
      true |->      \* "true"
        <<116, 114, 117, 101>>,
      false |->      \* "false"
        <<102, 97, 108, 115, 101>>,
      Bearer |->      \* "Bearer "
        <<66, 101, 97, 114, 101, 114, 32>>,
      mcp_client |->      \* "mcp_client_"
        <<109, 99, 112, 95, 99, 108, 105, 101, 110, 116, 95>>,
      mcp_token |->      \* "mcp_token_"
        <<109, 99, 112, 95, 116, 111, 107, 101, 110, 95>>,
      MCP_Client |->      \* "MCP Client"
        <<77, 67, 80, 32, 67, 108, 105, 101, 110, 116>>,
      default_scope |->      \* "openid profile email"
        <<111, 112, 101, 110, 105, 100, 32, 112, 114, 111, 102, 105, 108, 101, 32,
          101, 109, 97, 105, 108>>,
      google_scope |->      \* "openid email profile"
        <<111, 112, 101, 110, 105, 100, 32, 101, 109, 97, 105, 108, 32, 112, 114,
          111, 102, 105, 108, 101>>,
      authorization_code |->      \* "authorization_code"
        <<97, 117, 116, 104, 111, 114, 105, 122, 97, 116, 105, 111, 110, 95, 99,
          111, 100, 101>>,
      refresh_token |->      \* "refresh_token"
        <<114, 101, 102, 114, 101, 115, 104, 95, 116, 111, 107, 101, 110>>,
      code |->      \* "code"
        <<99, 111, 100, 101>>,
      none |->      \* "none"
        <<110, 111, 110, 101>>,
      google_auth |->      \* "https://accounts.google.com/o/oauth2/v2/auth"
        <<104, 116, 116, 112, 115, 58, 47, 47, 97, 99, 99, 111, 117, 110, 116, 115,
          46, 103, 111, 111, 103, 108, 101, 46, 99, 111, 109, 47, 111, 47, 111, 97,
          117, 116, 104, 50, 47, 118, 50, 47, 97, 117, 116, 104>>,
      cognito_auth |->      \* "https://zimitechs-gen2.auth.us-west-2.amazoncognito.com/oauth2/authorize"
        <<104, 116, 116, 112, 115, 58, 47, 47, 122, 105, 109, 105, 116, 101, 99,
          104, 115, 45, 103, 101, 110, 50, 46, 97, 117, 116, 104, 46, 117, 115, 45,
          119, 101, 115, 116, 45, 50, 46, 97, 109, 97, 122, 111, 110, 99, 111, 103,
          110, 105, 116, 111, 46, 99, 111, 109, 47, 111, 97, 117, 116, 104, 50, 47,
          97, 117, 116, 104, 111, 114, 105, 122, 101>>,
      callback_path |->      \* "/callback"
        <<47, 99, 97, 108, 108, 98, 97, 99, 107>>,
      undefined |->      \* "undefined"
        <<117, 110, 100, 101, 102, 105, 110, 101, 100>> ]

\* Names of object members, query parameters and form parameters.
K ==
    [ mcpClientId |->      \* "mcpClientId"
        <<109, 99, 112, 67, 108, 105, 101, 110, 116, 73, 100>>,
      mcpRedirectUri |->      \* "mcpRedirectUri"
        <<109, 99, 112, 82, 101, 100, 105, 114, 101, 99, 116, 85, 114, 105>>,
      mcpState |->      \* "mcpState"
        <<109, 99, 112, 83, 116, 97, 116, 101>>,
      codeChallenge |->      \* "codeChallenge"
        <<99, 111, 100, 101, 67, 104, 97, 108, 108, 101, 110, 103, 101>>,
      codeChallengeMethod |->      \* "codeChallengeMethod"
        <<99, 111, 100, 101, 67, 104, 97, 108, 108, 101, 110, 103, 101, 77, 101,
          116, 104, 111, 100>>,
      originalState |->      \* "originalState"
        <<111, 114, 105, 103, 105, 110, 97, 108, 83, 116, 97, 116, 101>>,
      originalRedirectUri |->      \* "originalRedirectUri"
        <<111, 114, 105, 103, 105, 110, 97, 108, 82, 101, 100, 105, 114, 101, 99,
          116, 85, 114, 105>>,
      originalClientId |->      \* "originalClientId"
        <<111, 114, 105, 103, 105, 110, 97, 108, 67, 108, 105, 101, 110, 116, 73,
          100>>,
      cognitoIdentityId |->      \* "cognitoIdentityId"
        <<99, 111, 103, 110, 105, 116, 111, 73, 100, 101, 110, 116, 105, 116, 121,
          73, 100>>,
      googleUserId |->      \* "googleUserId"
        <<103, 111, 111, 103, 108, 101, 85, 115, 101, 114, 73, 100>>,
      email |->      \* "email"
        <<101, 109, 97, 105, 108>>,
      name |->      \* "name"
        <<110, 97, 109, 101>>,
      timestamp |->      \* "timestamp"
        <<116, 105, 109, 101, 115, 116, 97, 109, 112>>,
      sub |->      \* "sub"
        <<115, 117, 98>>,
      state |->      \* "state"
        <<115, 116, 97, 116, 101>>,
      code |->      \* "code"
        <<99, 111, 100, 101>>,
      error |->      \* "error"
        <<101, 114, 114, 111, 114>>,
      redirect_uris |->      \* "redirect_uris"
        <<114, 101, 100, 105, 114, 101, 99, 116, 95, 117, 114, 105, 115>>,
      client_name |->      \* "client_name"
        <<99, 108, 105, 101, 110, 116, 95, 110, 97, 109, 101>>,
      scope |->      \* "scope"
        <<115, 99, 111, 112, 101>>,
      grant_types |->      \* "grant_types"
        <<103, 114, 97, 110, 116, 95, 116, 121, 112, 101, 115>>,
      response_types |->      \* "response_types"
        <<114, 101, 115, 112, 111, 110, 115, 101, 95, 116, 121, 112, 101, 115>>,
      client_id |->      \* "client_id"
        <<99, 108, 105, 101, 110, 116, 95, 105, 100>>,
      response_type |->      \* "response_type"
        <<114, 101, 115, 112, 111, 110, 115, 101, 95, 116, 121, 112, 101>>,
      redirect_uri |->      \* "redirect_uri"
        <<114, 101, 100, 105, 114, 101, 99, 116, 95, 117, 114, 105>> ]

(***************************************************************************)
(* JavaScript values.                                                      *)
(***************************************************************************)
Null == [t |-> "null"]
Undefined == [t |-> "undefined"]
Str(s) == [t |-> "string", s |-> s]
Num(n) == [t |-> "number", n |-> n]
Bool(b) == [t |-> "boolean", b |-> b]
\* An object keeps its members in insertion order: keys k[i], values v[i].
Obj(keys, vals) == [t |-> "object", k |-> keys, v |-> vals]
Arr(elems) == [t |-> "array", a |-> elems]

\* ToBoolean: what `if (x)`, `!x` and `x || y` test.
Truthy(v) ==
    CASE v.t = "null" -> FALSE
      [] v.t = "undefined" -> FALSE
      [] v.t = "string" -> Len(v.s) > 0
      [] v.t = "number" -> v.n # 0
      [] v.t = "boolean" -> v.b
      [] OTHER -> TRUE

\* a || b
OrElse(a, b) == IF Truthy(a) THEN a ELSE b

\* Property read o.key: undefined when the object has no such member.
\* Reading a property of null or undefined throws; HasProps tells.
HasProps(v) == v.t \notin {"null", "undefined"}

ObjGet(o, key) ==
    IF o.t = "object" /\ \E i \in 1..Len(o.k) : o.k[i] = key
    THEN o.v[CHOOSE i \in 1..Len(o.k) : o.k[i] = key]
    ELSE Undefined

\* Setting a member: replaces in place, or appends.
ObjSet(o, key, val) ==
    IF \E i \in 1..Len(o.k) : o.k[i] = key
    THEN [o EXCEPT !.v[CHOOSE i \in 1..Len(o.k) : o.k[i] = key] = val]
    ELSE [o EXCEPT !.k = Append(@, key), !.v = Append(@, val)]

StartsWith(s, p) == Len(s) >= Len(p) /\ SubSeq(s, 1, Len(p)) = p

\* String.prototype.substring(n) for n within the string.
Substring(s, n) == SubSeq(s, n + 1, Len(s))

RECURSIVE Digits(_)
\* Number-to-string of a natural (template literal `${Date.now()}`).
Digits(n) == IF n < 10 THEN <<48 + n>> ELSE Digits(n \div 10) \o <<48 + (n % 10)>>

RECURSIVE Flatten(_, _, _)
\* The concatenation of the sequences ss[lo], ..., ss[hi].
Flatten(ss, lo, hi) ==
    IF lo > hi THEN <<>>
    ELSE IF lo = hi THEN ss[lo]
    ELSE LET mid == (lo + hi) \div 2 IN Flatten(ss, lo, mid) \o Flatten(ss, mid + 1, hi)

IsDigit(c) == c >= 48 /\ c <= 57
IsHex(c) == IsDigit(c) \/ (c >= 65 /\ c <= 70) \/ (c >= 97 /\ c <= 102)
HexVal(c) == IF IsDigit(c) THEN c - 48 ELSE IF c >= 97 THEN c - 87 ELSE c - 55
HexUpper(d) == IF d < 10 THEN 48 + d ELSE 55 + d
HexLower(d) == IF d < 10 THEN 48 + d ELSE 87 + d

\* A string body written without escaping.
QuoteUnitRaw(c) == <<c>>

(***************************************************************************)
(* JSON.stringify, for the values the handlers serialise: null, booleans,  *)
(* non-negative integers, strings, and objects of these.  A member whose   *)
(* value is undefined is left out.                                         *)
(***************************************************************************)
\* One code unit of a string, escaped as JSON.stringify escapes it.
QuoteUnit(c) ==
    CASE c = 34 -> <<92, 34>>
      [] c = 92 -> <<92, 92>>
      [] c = 8 -> <<92, 98>>
      [] c = 9 -> <<92, 116>>
      [] c = 10 -> <<92, 110>>
      [] c = 12 -> <<92, 102>>
      [] c = 13 -> <<92, 114>>
      [] c < 32 -> <<92, 117, 48, 48, HexLower(c \div 16), HexLower(c % 16)>>
      [] OTHER -> <<c>>

QuoteJSONString(s) ==
    <<34>> \o Flatten([i \in 1..Len(s) |-> QuoteUnit(s[i])], 1, Len(s)) \o <<34>>

RECURSIVE JSONStringify(_)
RECURSIVE StringifyMembers(_, _, _)
JSONStringify(v) ==
    CASE v.t = "null" -> S.null
      [] v.t = "boolean" -> IF v.b THEN S.true ELSE S.false
      [] v.t = "number" -> Digits(v.n)
      [] v.t = "string" -> QuoteJSONString(v.s)
      [] v.t = "object" -> <<123>> \o StringifyMembers(v, 1, TRUE) \o <<125>>

StringifyMembers(o, i, first) ==
    IF i > Len(o.k) THEN <<>>
    ELSE IF o.v[i].t = "undefined" THEN StringifyMembers(o, i + 1, first)
    ELSE (IF first THEN <<>> ELSE <<44>>)
         \o QuoteJSONString(o.k[i]) \o <<58>> \o JSONStringify(o.v[i])
         \o StringifyMembers(o, i + 1, FALSE)

(***************************************************************************)
(* JSON.parse: a recursive-descent parser of the JSON grammar (white       *)
(* space, null, true, false, integers, strings with their escapes,         *)
(* objects, arrays).  Fractions and exponents are not parsed: no input of  *)
(* the model holds one.  A result is [ok, val, pos]; ok = FALSE is the     *)
(* SyntaxError that JSON.parse throws.                                     *)
(***************************************************************************)
ParseFail == [ok |-> FALSE, val |-> Null, pos |-> 0]
ParseOk(v, p) == [ok |-> TRUE, val |-> v, pos |-> p]

IsJSONSpace(c) == c \in {9, 10, 13, 32}

RECURSIVE SkipWs(_, _)
SkipWs(s, i) == IF i <= Len(s) /\ IsJSONSpace(s[i]) THEN SkipWs(s, i + 1) ELSE i

\* s holds the literal word w at position i.
HasWord(s, i, w) == i + Len(w) - 1 <= Len(s) /\ SubSeq(s, i, i + Len(w) - 1) = w

\* \b \f \n \r \t
SimpleEscapes == (98 :> 8) @@ (102 :> 12) @@ (110 :> 10) @@ (114 :> 13) @@ (116 :> 9)

\* The first position from i on that holds a quote, a backslash or a control
\* character, or Len(s) + 1.
NextSpecial(s, i) ==
    LET hits == {j \in i..Len(s) : s[j] = 34 \/ s[j] = 92 \/ s[j] < 32}
    IN  IF hits = {} THEN Len(s) + 1 ELSE CHOOSE j \in hits : \A k \in hits : j <= k

RECURSIVE ParseStringBody(_, _, _)
\* The units of a string after its opening quote, up to the closing one: plain
\* units are taken a run at a time, escapes one by one.
ParseStringBody(s, i, acc) ==
    LET From(p, run) ==
            IF p > Len(s) THEN ParseFail
            ELSE IF s[p] = 34 THEN ParseOk(Str(run), p + 1)
            ELSE IF s[p] < 32 THEN ParseFail
            ELSE IF p + 1 > Len(s) THEN ParseFail
            ELSE IF s[p + 1] \in {34, 92, 47} THEN ParseStringBody(s, p + 2, Append(run, s[p + 1]))
            ELSE IF s[p + 1] \in DOMAIN SimpleEscapes
                 THEN ParseStringBody(s, p + 2, Append(run, SimpleEscapes[s[p + 1]]))
            ELSE IF s[p + 1] = 117 /\ p + 5 <= Len(s) /\ \A j \in (p + 2)..(p + 5) : IsHex(s[j])
                 THEN ParseStringBody(s, p + 6, Append(run,
                        4096 * HexVal(s[p + 2]) + 256 * HexVal(s[p + 3])
                        + 16 * HexVal(s[p + 4]) + HexVal(s[p + 5])))
            ELSE ParseFail
        Run(p) == From(p, acc \o SubSeq(s, i, p - 1))
    IN  Run(NextSpecial(s, i))

RECURSIVE ParseDigits(_, _, _)
ParseDigits(s, i, acc) ==
    IF i <= Len(s) /\ IsDigit(s[i])
    THEN ParseDigits(s, i + 1, 10 * acc + (s[i] - 48))
    ELSE ParseOk(Num(acc), i)

\* -? ( 0 | [1-9][0-9]* )
ParseNumber(s, i) ==
    LET neg == s[i] = 45
        j == IF neg THEN i + 1 ELSE i
    IN  IF j > Len(s) \/ ~IsDigit(s[j]) THEN ParseFail
        ELSE IF s[j] = 48 THEN ParseOk(Num(0), j + 1)
        ELSE LET r == ParseDigits(s, j, 0)
             IN  IF neg THEN ParseOk(Num(0 - r.val.n), r.pos) ELSE r

RECURSIVE ParseValue(_, _)
RECURSIVE ParseMembers(_, _, _)
RECURSIVE ParseElements(_, _, _)
\* A value starting at position i (white space already skipped).
ParseValue(s, i) ==
    IF i > Len(s) THEN ParseFail
    ELSE CASE s[i] = 34 -> ParseStringBody(s, i + 1, <<>>)
           [] s[i] = 123 ->
                LET j == SkipWs(s, i + 1)
                IN  IF j <= Len(s) /\ s[j] = 125 THEN ParseOk(Obj(<<>>, <<>>), j + 1)
                    ELSE ParseMembers(s, j, Obj(<<>>, <<>>))
           [] s[i] = 91 ->
                LET j == SkipWs(s, i + 1)
                IN  IF j <= Len(s) /\ s[j] = 93 THEN ParseOk(Arr(<<>>), j + 1)
                    ELSE ParseElements(s, j, <<>>)
           [] s[i] = 45 \/ IsDigit(s[i]) -> ParseNumber(s, i)
           [] HasWord(s, i, S.null) -> ParseOk(Null, i + 4)
           [] HasWord(s, i, S.true) -> ParseOk(Bool(TRUE), i + 4)
           [] HasWord(s, i, S.false) -> ParseOk(Bool(FALSE), i + 5)
           [] OTHER -> ParseFail

\* "key" : value ( , "key" : value )* }
ParseMembers(s, i, o) ==
    LET AfterValue(k, val) ==
            IF ~val.ok THEN ParseFail
            ELSE LET n == SkipWs(s, val.pos) IN
                 IF n > Len(s) THEN ParseFail
                 ELSE IF s[n] = 125 THEN ParseOk(ObjSet(o, k, val.val), n + 1)
                 ELSE IF s[n] = 44
                      THEN ParseMembers(s, SkipWs(s, n + 1), ObjSet(o, k, val.val))
                 ELSE ParseFail
        AfterKey(key) ==
            IF ~key.ok THEN ParseFail
            ELSE LET c == SkipWs(s, key.pos) IN
                 IF c > Len(s) \/ s[c] # 58 THEN ParseFail
                 ELSE AfterValue(key.val.s, ParseValue(s, SkipWs(s, c + 1)))
    IN  IF i > Len(s) \/ s[i] # 34 THEN ParseFail
        ELSE AfterKey(ParseStringBody(s, i + 1, <<>>))

\* value ( , value )* ]
ParseElements(s, i, acc) ==
    LET AfterValue(val) ==
            IF ~val.ok THEN ParseFail
            ELSE LET n == SkipWs(s, val.pos) IN
                 IF n > Len(s) THEN ParseFail
                 ELSE IF s[n] = 93 THEN ParseOk(Arr(Append(acc, val.val)), n + 1)
                 ELSE IF s[n] = 44
                      THEN ParseElements(s, SkipWs(s, n + 1), Append(acc, val.val))
                 ELSE ParseFail
    IN  AfterValue(ParseValue(s, i))

\* JSON.parse(s): one value, white space around it, nothing else.
JSONParse(s) ==
    LET Whole(r) == IF r.ok /\ SkipWs(s, r.pos) = Len(s) + 1 THEN r ELSE ParseFail
    IN  Whole(ParseValue(s, SkipWs(s, 1)))

(***************************************************************************)
(* btoa / atob (the platform's base64 of "binary strings").                *)
(***************************************************************************)
\* The base64 alphabet: A-Z a-z 0-9 + /
B64Char(i) ==
    CASE i < 26 -> 65 + i
      [] i < 52 -> 97 + (i - 26)
      [] i < 62 -> 48 + (i - 52)
      [] i = 62 -> 43
      [] OTHER -> 47

IsB64(c) == (c >= 65 /\ c <= 90) \/ (c >= 97 /\ c <= 122) \/ IsDigit(c) \/ c = 43 \/ c = 47

B64Val(c) ==
    CASE c >= 65 /\ c <= 90 -> c - 65
      [] c >= 97 /\ c <= 122 -> c - 97 + 26
      [] IsDigit(c) -> c - 48 + 52
      [] c = 43 -> 62
      [] OTHER -> 63

\* The group of up to three bytes that starts at position i: three bytes become
\* four characters; a rest of one or two bytes is padded with "=".
BtoaGroup(s, i) ==
    LET rest == Len(s) - i + 1 IN
    IF rest = 1 THEN
        <<B64Char(s[i] \div 4), B64Char((s[i] % 4) * 16), 61, 61>>
    ELSE IF rest = 2 THEN
        <<B64Char(s[i] \div 4), B64Char((s[i] % 4) * 16 + (s[i + 1] \div 16)),
          B64Char((s[i + 1] % 16) * 4), 61>>
    ELSE
        <<B64Char(s[i] \div 4), B64Char((s[i] % 4) * 16 + (s[i + 1] \div 16)),
          B64Char((s[i + 1] % 16) * 4 + (s[i + 2] \div 64)), B64Char(s[i + 2] % 64)>>

BtoaFrom(s) ==
    LET n == (Len(s) + 2) \div 3
    IN  Flatten([g \in 1..n |-> BtoaGroup(s, 3 * g - 2)], 1, n)

\* btoa(s): throws InvalidCharacterError (ok = FALSE) when a code unit is above 255.
Btoa(s) ==
    IF \E i \in 1..Len(s) : s[i] > 255
    THEN [ok |-> FALSE, s |-> <<>>]
    ELSE [ok |-> TRUE, s |-> BtoaFrom(s)]

IsAsciiSpace(c) == c \in {9, 10, 12, 13, 32}

NotAsciiSpace(c) == ~IsAsciiSpace(c)
DropAsciiSpace(s) == SelectSeq(s, NotAsciiSpace)

\* "If the length divides by 4, remove one or two trailing = signs."
DropPadding(s) ==
    IF Len(s) % 4 # 0 \/ Len(s) = 0 THEN s
    ELSE IF s[Len(s)] # 61 THEN s
    ELSE IF s[Len(s) - 1] # 61 THEN SubSeq(s, 1, Len(s) - 1)
    ELSE SubSeq(s, 1, Len(s) - 2)

\* The group of up to four characters that starts at position i: four characters
\* become three bytes; a rest of two or three gives one or two.
AtobGroup(s, i) ==
    LET rest == Len(s) - i + 1 IN
    IF rest = 2 THEN
        <<B64Val(s[i]) * 4 + (B64Val(s[i + 1]) \div 16)>>
    ELSE IF rest = 3 THEN
        <<B64Val(s[i]) * 4 + (B64Val(s[i + 1]) \div 16),
          (B64Val(s[i + 1]) % 16) * 16 + (B64Val(s[i + 2]) \div 4)>>
    ELSE
        <<B64Val(s[i]) * 4 + (B64Val(s[i + 1]) \div 16),
          (B64Val(s[i + 1]) % 16) * 16 + (B64Val(s[i + 2]) \div 4),
          (B64Val(s[i + 2]) % 4) * 64 + B64Val(s[i + 3])>>

AtobFrom(s) ==
    LET n == (Len(s) + 3) \div 4
    IN  Flatten([g \in 1..n |-> AtobGroup(s, 4 * g - 3)], 1, n)

\* atob(s), the forgiving-base64 decode: throws (ok = FALSE) when, white space and
\* padding removed, the length is 1 modulo 4 or a character is outside the alphabet.
Atob(s) ==
    LET Decoded(d) ==
            IF Len(d) % 4 = 1 \/ \E i \in 1..Len(d) : ~IsB64(d[i])
            THEN [ok |-> FALSE, s |-> <<>>]
            ELSE [ok |-> TRUE, s |-> AtobFrom(d)]
    IN  Decoded(DropPadding(DropAsciiSpace(s)))

(***************************************************************************)
(* URLSearchParams: the application/x-www-form-urlencoded serializer and   *)
(* parser that url.searchParams.set / get and new URLSearchParams(body)    *)
(* apply.  Strings here hold no surrogate code units.                      *)
(***************************************************************************)
\* UTF-8 of one code unit below the surrogates or above them (1 to 3 bytes).
Utf8Encode(c) ==
    IF c < 128 THEN <<c>>
    ELSE IF c < 2048 THEN <<192 + (c \div 64), 128 + (c % 64)>>
    ELSE <<224 + (c \div 4096), 128 + ((c \div 64) % 64), 128 + (c % 64)>>

\* A byte as the serializer writes it: alphanumerics and * - . _ as they are,
\* space as "+", every other byte as %XX.
UrlEncodeByte(b) ==
    IF IsDigit(b) \/ (b >= 65 /\ b <= 90) \/ (b >= 97 /\ b <= 122) \/ b \in {42, 45, 46, 95}
    THEN <<b>>
    ELSE IF b = 32 THEN <<43>>
    ELSE <<37, HexUpper(b \div 16), HexUpper(b % 16)>>

\* A code unit as the serializer writes it: its UTF-8 bytes, each encoded.
UrlEncodeUnit(c) ==
    Flatten([i \in 1..Len(Utf8Encode(c)) |-> UrlEncodeByte(Utf8Encode(c)[i])],
            1, Len(Utf8Encode(c)))

\* The serialized form of a name or a value.
FormUrlEncode(s) == Flatten([i \in 1..Len(s) |-> UrlEncodeUnit(s[i])], 1, Len(s))

\* Position i of s starts an escape %XX.
EscapeAt(s, i) == i >= 1 /\ i + 2 <= Len(s) /\ s[i] = 37 /\ IsHex(s[i + 1]) /\ IsHex(s[i + 2])

\* "+" is a space, %XX is a byte, anything else stands for itself.  (The two
\* digits of an escape are hex digits, so no escape starts inside another.)
PercentDecode(s) ==
    Flatten([i \in 1..Len(s) |->
                IF EscapeAt(s, i) THEN <<16 * HexVal(s[i + 1]) + HexVal(s[i + 2])>>
                ELSE IF EscapeAt(s, i - 1) \/ EscapeAt(s, i - 2) THEN <<>>
                ELSE IF s[i] = 43 THEN <<32>>
                ELSE <<s[i]>>], 1, Len(s))

IsCont(bs, i) == i >= 1 /\ i <= Len(bs) /\ bs[i] >= 128 /\ bs[i] < 192
\* Position i holds the lead byte of a well-formed two-byte or three-byte sequence.
Lead2(bs, i) == i >= 1 /\ i <= Len(bs) /\ bs[i] >= 194 /\ bs[i] < 224 /\ IsCont(bs, i + 1)
Lead3(bs, i) == /\ i >= 1 /\ i <= Len(bs) /\ bs[i] >= 224 /\ bs[i] < 240
                /\ IsCont(bs, i + 1) /\ IsCont(bs, i + 2)
                /\ (bs[i] > 224 \/ bs[i + 1] >= 160)

\* UTF-8 decode without BOM, for sequences of up to three bytes: a byte that is
\* part of no well-formed sequence becomes U+FFFD.
Utf8Decode(bs) ==
    Flatten([i \in 1..Len(bs) |->
                IF bs[i] < 128 THEN <<bs[i]>>
                ELSE IF Lead2(bs, i) THEN <<(bs[i] - 192) * 64 + (bs[i + 1] - 128)>>
                ELSE IF Lead3(bs, i)
                     THEN <<(bs[i] - 224) * 4096 + (bs[i + 1] - 128) * 64 + (bs[i + 2] - 128)>>
                ELSE IF IsCont(bs, i) /\ (Lead2(bs, i - 1) \/ Lead3(bs, i - 1) \/ Lead3(bs, i - 2))
                     THEN <<>>
                ELSE <<65533>>], 1, Len(bs))

FormUrlDecode(s) == Utf8Decode(PercentDecode(s))

\* The pieces of s between occurrences of the unit sep.
SplitOn(s, sep) ==
    LET seps == {i \in 1..Len(s) : s[i] = sep}
        n == Cardinality(seps)
        \* the position of the k-th separator; 0 and Len(s) + 1 bound the string
        At(k) == IF k = 0 THEN 0
                 ELSE IF k > n THEN Len(s) + 1
                 ELSE CHOOSE i \in seps : Cardinality({j \in seps : j < i}) = k - 1
    IN  [k \in 1..(n + 1) |-> SubSeq(s, At(k - 1) + 1, At(k) - 1)]

\* Position of the first "=" of a piece, or Len + 1.
FirstEq(p) == IF \E i \in 1..Len(p) : p[i] = 61
              THEN CHOOSE i \in 1..Len(p) : p[i] = 61 /\ \A j \in 1..(i - 1) : p[j] # 61
              ELSE Len(p) + 1

\* searchParams.get(name) on a query string: the first pair of that name, or null.
QueryGet(q, name) ==
    LET pieces == SplitOn(q, 38)
        IsHit(i) == Len(pieces[i]) > 0
                    /\ FormUrlDecode(SubSeq(pieces[i], 1, FirstEq(pieces[i]) - 1)) = name
        hits == {i \in 1..Len(pieces) : IsHit(i)}
    IN  IF hits = {} THEN Null
        ELSE LET i == CHOOSE h \in hits : \A g \in hits : h <= g
             IN  Str(FormUrlDecode(SubSeq(pieces[i], FirstEq(pieces[i]) + 1, Len(pieces[i]))))

\* name=value as searchParams.set appends it to a query.
QueryPair(name, value) == FormUrlEncode(name) \o <<61>> \o FormUrlEncode(value)

(***************************************************************************)
(* Map (registeredClients, tokenStore): a function from the keys set so    *)
(* far to their values.                                                    *)
(***************************************************************************)
EmptyMap == <<>>
MapHas(m, key) == key \in DOMAIN m
\* Map.prototype.get: undefined for a key never set.
MapGet(m, key) == IF key \in DOMAIN m THEN m[key] ELSE Undefined
\* A map that forgets its other keys when one is set.
MapReplace(m, key, val) == [x \in {key} |-> val]

\* Map.prototype.set: adds the key or overwrites its value.
MapSet(m, key, val) == [x \in (DOMAIN m) \cup {key} |-> IF x = key THEN val ELSE m[x]]

\* String.prototype.substr(start, length)
Substr(s, start, length) ==
    IF start >= Len(s) THEN <<>>
    ELSE SubSeq(s, start + 1, IF start + length < Len(s) THEN start + length ELSE Len(s))

(***************************************************************************)
(* Responses.  A response is a record of what the claims read of it:       *)
(* status, the kind of body, the `error` member of a JSON body, headers    *)
(* (WWW-Authenticate, Location), the members of a success body, whether    *)
(* the request was handed to the MCP agent, and the upstream calls the     *)
(* handler made.                                                           *)
(***************************************************************************)
BaseRes ==
    [status |-> 0, kind |-> "none", error |-> "", wwwAuth |-> FALSE, location |-> <<>>,
     client_id |-> <<>>, access_token |-> <<>>, token_type |-> "", expires_in |-> 0,
     agent |-> FALSE, userInfo |-> Null, calls |-> <<>>]

\* new Response("...", { status })
TextResponse(status) == [BaseRes EXCEPT !.status = status, !.kind = "text"]
\* new Response(JSON.stringify({ error }), { status, Content-Type: application/json })
JsonError(status, error) == [BaseRes EXCEPT !.status = status, !.kind = "json", !.error = error]
\* Response.redirect(url, 302)
RedirectResponse(url) == [BaseRes EXCEPT !.status = 302, !.kind = "redirect", !.location = url]

(***************************************************************************)
(* /register (the same text in both handlers).                             *)
(***************************************************************************)
\* The body as request.json() gives it: a parsed value, or MalformedBody when
\* request.json() rejects.
MalformedBody == [t |-> "malformed"]

\* `mcp_client_${Date.now()}_${Math.random().toString(36).substr(2, 9)}`
NewClientId(t, rnd) == S.mcp_client \o Digits(t) \o <<95>> \o Substr(rnd, 2, 9)

\* The record stored under the new client id.
ClientRecord(clientId, registration, t) ==
    [t |-> "object",
     client_id |-> clientId,
     redirect_uris |-> OrElse(ObjGet(registration, K.redirect_uris), Arr(<<>>)),
     client_name |-> OrElse(ObjGet(registration, K.client_name), Str(S.MCP_Client)),
     scope |-> OrElse(ObjGet(registration, K.scope), Str(S.default_scope)),
     grant_types |-> OrElse(ObjGet(registration, K.grant_types), Arr(<<Str(S.authorization_code)>>)),
     response_types |-> OrElse(ObjGet(registration, K.response_types), Arr(<<Str(S.code)>>)),
     token_endpoint_auth_method |-> S.none,
     created_at |-> t]

\* A registration that stores the record and then rejects the request.
handleRegisterStoring(method, body, reg, t, rnd) ==
    [res |-> TextResponse(400),
     reg |-> MapSet(reg, NewClientId(t, rnd), ClientRecord(NewClientId(t, rnd), Obj(<<>>, <<>>), t))]

\* handleRegister: the response and the registry after it.  t is Date.now(),
\* rnd is Math.random().toString(36).
handleRegister(method, body, reg, t, rnd) ==
    IF method # "POST" THEN [res |-> TextResponse(405), reg |-> reg]
    ELSE IF body = MalformedBody \/ ~HasProps(body)
         \* request.json() rejects, or registration.redirect_uris throws on null:
         \* both land in the catch, before registeredClients.set is reached
         THEN [res |-> TextResponse(400), reg |-> reg]
    ELSE LET clientId == NewClientId(t, rnd) IN
         [res |-> [BaseRes EXCEPT !.status = 201, !.kind = "json", !.client_id = clientId],
          reg |-> MapSet(reg, clientId, ClientRecord(clientId, body, t))]

(***************************************************************************)
(* /token.                                                                 *)
(***************************************************************************)
\* `mcp_token_${Date.now()}_${Math.random().toString(36).substr(2, 16)}`
NewAccessToken(t, rnd) == S.mcp_token \o Digits(t) \o <<95>> \o Substr(rnd, 2, 16)

\* A parameter check that does not look at the grant type.
TokenParamsMissingAnyGrant(grantType, code, clientId) == ~Truthy(code) \/ ~Truthy(clientId)

\* grantType !== "authorization_code" || !code || !clientId
TokenParamsMissing(grantType, code, clientId) ==
    grantType # Str(S.authorization_code) \/ ~Truthy(code) \/ ~Truthy(clientId)

\* JSON.parse(atob(code)): [ok, val]; ok = FALSE when atob or JSON.parse throws.
DecodeAuthCode(code) ==
    LET Parsed(bin) == IF bin.ok THEN JSONParse(bin.s) ELSE ParseFail
    IN  Parsed(Atob(code))

\* The 200 envelope: access_token, token_type "Bearer", expires_in 3600.
TokenResponse(accessToken) ==
    [BaseRes EXCEPT !.status = 200, !.kind = "json", !.access_token = accessToken,
                    !.token_type = "Bearer", !.expires_in = 3600]

\* A token endpoint that mints a token for every request.
handleTokenUnchecked(req, reg, store, t, rnd) ==
    [res |-> TokenResponse(NewAccessToken(t, rnd)), store |-> store]

\* A token endpoint that wants a code_verifier with the code.
handleTokenPKCE(req, reg, store, t, rnd) ==
    IF req.method # "POST" THEN [res |-> TextResponse(405), store |-> store]
    ELSE IF TokenParamsMissing(req.grant_type, req.code, req.client_id)
         THEN [res |-> JsonError(400, "invalid_request"), store |-> store]
    ELSE IF ~Truthy(req.code_verifier) \/ ~DecodeAuthCode(req.code.s).ok
         THEN [res |-> JsonError(400, "invalid_grant"), store |-> store]
    ELSE [res |-> TokenResponse(NewAccessToken(t, rnd)),
          store |-> MapSet(store, NewAccessToken(t, rnd), DecodeAuthCode(req.code.s).val)]

\* handleToken of src/src/cognito-handler.ts: checks the client, stores nothing.
handleTokenDirect(req, reg, store, t, rnd) ==
    IF req.method # "POST" THEN [res |-> TextResponse(405), store |-> store]
    ELSE IF TokenParamsMissing(req.grant_type, req.code, req.client_id)
         THEN [res |-> JsonError(400, "invalid_request"), store |-> store]
    ELSE IF ~Truthy(MapGet(reg, req.client_id.s))
         THEN [res |-> JsonError(401, "invalid_client"), store |-> store]
    ELSE IF ~DecodeAuthCode(req.code.s).ok
         THEN [res |-> JsonError(400, "invalid_grant"), store |-> store]
    ELSE [res |-> TokenResponse(NewAccessToken(t, rnd)), store |-> store]

\* handleToken of src/unnamed/part_000: no client check; tokenStore.set(accessToken, tokenData).
handleTokenFederated(req, reg, store, t, rnd) ==
    IF req.method # "POST" THEN [res |-> TextResponse(405), store |-> store]
    ELSE IF TokenParamsMissing(req.grant_type, req.code, req.client_id)
         THEN [res |-> JsonError(400, "invalid_request"), store |-> store]
    ELSE LET Redeem(tokenData, accessToken) ==
                IF ~tokenData.ok
                THEN [res |-> JsonError(400, "invalid_grant"), store |-> store]
                ELSE [res |-> TokenResponse(accessToken),
                      store |-> MapSet(store, accessToken, tokenData.val)]
         IN  Redeem(DecodeAuthCode(req.code.s), NewAccessToken(t, rnd))

(***************************************************************************)
(* The resource gate.                                                      *)
(***************************************************************************)
\* verifyMCPToken: tokenStore.get(accessToken) || null
verifyMCPToken(store, accessToken) == OrElse(MapGet(store, accessToken), Null)

\* !authHeader || !authHeader.startsWith("Bearer ")
NoBearer(authHeader) == ~Truthy(authHeader) \/ ~StartsWith(authHeader.s, S.Bearer)

Unauthorized == [JsonError(401, "unauthorized") EXCEPT !.wwwAuth = TRUE]

\* requireAuth of src/src/index.ts: { error, userInfo }; error is Null when it passes.
requireAuth(authHeader, store) ==
    IF NoBearer(authHeader) THEN [error |-> Unauthorized, userInfo |-> Null]
    ELSE LET userInfo == verifyMCPToken(store, Substring(authHeader.s, 7)) IN
         IF ~Truthy(userInfo)
         THEN [error |-> JsonError(401, "invalid_token"), userInfo |-> Null]
         ELSE [error |-> Null, userInfo |-> userInfo]

\* requireAuth of src/unnamed/part_001: only checks that a token is there.
requireAuthStub(authHeader) ==
    IF NoBearer(authHeader) THEN [error |-> Unauthorized, userInfo |-> Null]
    ELSE IF Len(Substring(authHeader.s, 7)) = 0
         THEN [error |-> JsonError(401, "invalid_token"), userInfo |-> Null]
    ELSE [error |-> Null, userInfo |-> Null]

ProtectedPaths == {"/sse", "/sse/message", "/mcp"}

\* What MyMCP.serve(...).fetch answers: the request reached the agent.
AgentResponse(userInfo) ==
    [BaseRes EXCEPT !.status = 200, !.kind = "agent", !.agent = TRUE, !.userInfo = userInfo]

\* A gate that lets every request through.
GuardedOpen(auth) == AgentResponse(auth.userInfo)

\* A protected path: the agent is reached only past the gate.
Guarded(auth) == IF auth.error # Null THEN auth.error ELSE AgentResponse(auth.userInfo)

\* fetch of src/src/index.ts, for the paths that are not OAuth endpoints.
fetchIndex(path, authHeader, store) ==
    IF path \in ProtectedPaths THEN Guarded(requireAuth(authHeader, store))
    ELSE TextResponse(404)

\* fetch of src/unnamed/part_001, for the paths that are not OAuth endpoints.
fetchStub(path, authHeader) ==
    IF path \in ProtectedPaths THEN Guarded(requireAuthStub(authHeader))
    ELSE TextResponse(404)

(***************************************************************************)
(* Configuration and the request's own origin.                             *)
(***************************************************************************)
\* url.origin of the requests of the model: "https://p"
S_origin == <<104, 116, 116, 112, 115, 58, 47, 47, 112>>
\* env.GOOGLE_CLIENT_ID / env.COGNITO_CLIENT_ID: "up"
S_upstream_client == <<117, 112>>

RECURSIVE JoinPairs(_, _)
\* name=value pairs joined by "&", as URLSearchParams serializes them.
JoinPairs(pairs, i) ==
    IF i > Len(pairs) THEN <<>>
    ELSE (IF i = 1 THEN <<>> ELSE <<38>>) \o QueryPair(pairs[i][1], pairs[i][2])
         \o JoinPairs(pairs, i + 1)

\* A URL without query, and the query its searchParams were set to.
WithQuery(base, pairs) == base \o <<63>> \o JoinPairs(pairs, 1)

\* The query of a URL string: what follows the first "?".
UrlQuery(url) ==
    IF \E i \in 1..Len(url) : url[i] = 63
    THEN SubSeq(url, 1 + (CHOOSE i \in 1..Len(url) : url[i] = 63 /\ \A j \in 1..(i - 1) : url[j] # 63),
                Len(url))
    ELSE <<>>

(***************************************************************************)
(* /authorize.                                                             *)
(***************************************************************************)
\* JSON.stringify({ mcpClientId, mcpRedirectUri, mcpState, codeChallenge, codeChallengeMethod })
EncodeStateFederated(clientId, redirectUri, state, codeChallenge, codeChallengeMethod) ==
    JSONStringify(Obj(
        <<K.mcpClientId, K.mcpRedirectUri, K.mcpState, K.codeChallenge, K.codeChallengeMethod>>,
        <<clientId, redirectUri, state, codeChallenge, codeChallengeMethod>>))

\* JSON.stringify({ originalState, originalRedirectUri, originalClientId, codeChallenge,
\* codeChallengeMethod })
EncodeStateDirect(clientId, redirectUri, state, codeChallenge, codeChallengeMethod) ==
    JSONStringify(Obj(
        <<K.originalState, K.originalRedirectUri, K.originalClientId, K.codeChallenge,
          K.codeChallengeMethod>>,
        <<state, redirectUri, clientId, codeChallenge, codeChallengeMethod>>))

\* handleAuthorize of src/unnamed/part_000: no look-up of the client.
handleAuthorizeFederated(req, reg) ==
    IF ~Truthy(req.client_id) \/ ~Truthy(req.redirect_uri) THEN TextResponse(400)
    ELSE RedirectResponse(WithQuery(S.google_auth,
            << <<K.client_id, S_upstream_client>>,
               <<K.response_type, S.code>>,
               <<K.scope, S.google_scope>>,
               <<K.redirect_uri, S_origin \o S.callback_path>>,
               <<K.state, EncodeStateFederated(req.client_id, req.redirect_uri, req.state,
                                               req.code_challenge, req.code_challenge_method)>> >>))

\* An /authorize that hands the upstream the downstream client's own redirect URI.
handleAuthorizePassThrough(req, reg) ==
    IF ~Truthy(req.client_id) \/ ~Truthy(req.redirect_uri) THEN TextResponse(400)
    ELSE RedirectResponse(WithQuery(S.cognito_auth,
            << <<K.client_id, S_upstream_client>>,
               <<K.response_type, S.code>>,
               <<K.redirect_uri, req.redirect_uri.s>>,
               <<K.state, EncodeStateDirect(req.client_id, req.redirect_uri, req.state,
                                            req.code_challenge, req.code_challenge_method)>> >>))

\* handleAuthorize of src/src/cognito-handler.ts: the client must be registered.
handleAuthorizeDirect(req, reg) ==
    IF ~Truthy(req.client_id) \/ ~Truthy(req.redirect_uri) THEN TextResponse(400)
    ELSE IF ~Truthy(MapGet(reg, req.client_id.s)) THEN TextResponse(401)
    ELSE RedirectResponse(WithQuery(S.cognito_auth,
            << <<K.client_id, S_upstream_client>>,
               <<K.response_type, S.code>>,
               <<K.scope, OrElse(req.scope, Str(S.google_scope)).s>>,
               <<K.redirect_uri, S_origin \o S.callback_path>>,
               <<K.state, EncodeStateDirect(req.client_id, req.redirect_uri, req.state,
                                            req.code_challenge, req.code_challenge_method)>> >>))

(***************************************************************************)
(* /callback.  The upstream services answer as the record `up` says:       *)
(*   up.tokenOk, up.tokens = [access_token, id_token]   (token endpoint)   *)
(*   up.userOk, up.user = [sub, email, name, given_name] (userinfo)        *)
(*   up.idOk, up.IdentityId                              (Cognito GetId)   *)
(***************************************************************************)
\* new URL(x) succeeds: x is a string that starts with a scheme and ":".  (The
\* redirect URIs of the model are strings, null or undefined.)
IsSchemeChar(c) == (c >= 65 /\ c <= 90) \/ (c >= 97 /\ c <= 122)
URLParses(x) ==
    /\ x.t = "string"
    /\ \E i \in 2..Len(x.s) : x.s[i] = 58 /\ \A j \in 1..(i - 1) : IsSchemeChar(x.s[j])

\* A code without the federated identity id.
createMCPAuthCodeAnonymous(cognitoIdentityId, googleUserId, email, name, t) ==
    Btoa(JSONStringify(Obj(
        <<K.googleUserId, K.email, K.name, K.timestamp>>,
        <<googleUserId, email, name, Num(t)>>)))

\* createMCPAuthCode of src/unnamed/part_000:
\* btoa(JSON.stringify({ ...tokenData, timestamp: Date.now() }))
createMCPAuthCodeFederated(cognitoIdentityId, googleUserId, email, name, t) ==
    Btoa(JSONStringify(Obj(
        <<K.cognitoIdentityId, K.googleUserId, K.email, K.name, K.timestamp>>,
        <<cognitoIdentityId, googleUserId, email, name, Num(t)>>)))

\* createMCPAuthCode of src/src/cognito-handler.ts:
\* btoa(JSON.stringify({ sub, email, name: name || given_name || email, timestamp }))
createMCPAuthCodeDirect(userInfo, t) ==
    Btoa(JSONStringify(Obj(
        <<K.sub, K.email, K.name, K.timestamp>>,
        <<userInfo.sub, userInfo.email,
          OrElse(OrElse(userInfo.name, userInfo.given_name), userInfo.email), Num(t)>>)))

\* A federation step that reports success whatever the service answered.
getCognitoIdentityIdLenient(googleIdToken, up) ==
    [ok |-> TRUE, id |-> up.IdentityId, called |-> TRUE]

\* getCognitoIdentityId(googleIdToken): [ok, id, called].  Reading .length of an
\* undefined id token throws before the request is made; a non-2xx answer and an
\* answer without IdentityId throw after it.
getCognitoIdentityId(googleIdToken, up) ==
    IF ~HasProps(googleIdToken) THEN [ok |-> FALSE, id |-> Undefined, called |-> FALSE]
    ELSE IF ~up.idOk \/ ~Truthy(up.IdentityId)
         THEN [ok |-> FALSE, id |-> Undefined, called |-> TRUE]
    ELSE [ok |-> TRUE, id |-> up.IdentityId, called |-> TRUE]

\* The final redirect: new URL(redirectUri), searchParams.set("code", code) and,
\* if (state), searchParams.set("state", state).
FinalRedirect(redirectUri, code, state) ==
    RedirectResponse(WithQuery(redirectUri.s,
        IF Truthy(state) THEN << <<K.code, code>>, <<K.state, state.s>> >>
        ELSE << <<K.code, code>> >>))

\* A failure reported with another status than 500.
Failed502(calls) == [TextResponse(502) EXCEPT !.calls = calls]

Failed500(calls) == [TextResponse(500) EXCEPT !.calls = calls]

\* handleCallback of src/unnamed/part_000.
handleCallbackFederated(query, up, t) ==
    LET Finish(calls, mcpAuthCode, mcpRedirectUri, mcpState) ==
            IF ~mcpAuthCode.ok \/ ~URLParses(mcpRedirectUri) THEN Failed500(calls)
            ELSE [FinalRedirect(mcpRedirectUri, mcpAuthCode.s, mcpState) EXCEPT !.calls = calls]
        Resolve(stateData, identity) ==
            LET calls == IF identity.called THEN <<"token", "userinfo", "getid">>
                         ELSE <<"token", "userinfo">>
            IN  IF ~identity.ok THEN Failed500(calls)
                ELSE Finish(calls,
                        createMCPAuthCodeFederated(identity.id, up.user.sub, up.user.email,
                            OrElse(OrElse(up.user.name, up.user.given_name), up.user.email), t),
                        ObjGet(stateData.val, K.mcpRedirectUri),
                        ObjGet(stateData.val, K.mcpState))
        Exchange(stateData) ==
            IF ~stateData.ok \/ ~HasProps(stateData.val) THEN Failed500(<<>>)
            ELSE IF ~up.tokenOk THEN Failed500(<<"token">>)
            ELSE IF ~up.userOk THEN Failed500(<<"token", "userinfo">>)
            ELSE Resolve(stateData, getCognitoIdentityId(up.tokens.id_token, up))
        Handle(code, state, error) ==
            IF Truthy(error) THEN TextResponse(400)
            ELSE IF ~Truthy(code) \/ ~Truthy(state) THEN TextResponse(400)
            ELSE Exchange(JSONParse(state.s))
    IN  Handle(QueryGet(query, K.code), QueryGet(query, K.state), QueryGet(query, K.error))

\* handleCallback of src/src/cognito-handler.ts.
handleCallbackDirect(query, up, t) ==
    LET Finish(finalAuthCode, originalRedirectUri, originalState) ==
            IF ~finalAuthCode.ok \/ ~URLParses(originalRedirectUri)
            THEN Failed500(<<"token", "userinfo">>)
            ELSE [FinalRedirect(originalRedirectUri, finalAuthCode.s, originalState)
                    EXCEPT !.calls = <<"token", "userinfo">>]
        Exchange(stateData) ==
            IF ~stateData.ok \/ ~HasProps(stateData.val) THEN Failed500(<<>>)
            ELSE IF ~up.tokenOk THEN Failed500(<<"token">>)
            ELSE IF ~up.userOk THEN Failed500(<<"token", "userinfo">>)
            ELSE Finish(createMCPAuthCodeDirect(up.user, t),
                        ObjGet(stateData.val, K.originalRedirectUri),
                        ObjGet(stateData.val, K.originalState))
        Handle(code, state, error) ==
            IF Truthy(error) THEN TextResponse(400)
            ELSE IF ~Truthy(code) \/ ~Truthy(state) THEN TextResponse(400)
            ELSE Exchange(JSONParse(state.s))
    IN  Handle(QueryGet(query, K.code), QueryGet(query, K.state), QueryGet(query, K.error))

(***************************************************************************)
(* The state of one process.                                               *)
(***************************************************************************)
VARIABLES
    variant,            \* which deployment runs: "direct" or "federated"
    now,                \* Date.now()
    registeredClients,  \* the Map registeredClients of the handler
    tokenStore,         \* the Map tokenStore (src/unnamed/part_000 only)
    issuedTokens,       \* history: every access_token a 200 of /token returned
    resp,               \* the last request handled and its response
    codec               \* the round trip under way (specifications SpecState, SpecCode)

vars == <<variant, now, registeredClients, tokenStore, issuedTokens, resp, codec>>

(***************************************************************************)
(* Bounds and the inputs the requests are drawn from.                      *)
(***************************************************************************)
MaxTime == 1
MaxRegs == 1
MaxTokens == 1

Variants == {"direct", "federated"}

\* Math.random().toString(36) of one draw, "0.4fzyo82mvyr".  Two requests handled in
\* the same millisecond may draw the same value; requests handled in different
\* milliseconds differ by Date.now().
RandomStrings == {<<48, 46, 52, 102, 122, 121, 111, 56, 50, 109, 118, 121, 114>>}

S_x == <<120>>                    \* "x": a client id no registration returns
S_uri == <<97, 58, 47, 99, 98>>   \* "a:/cb": a redirect URI that new URL accepts
S_cb == <<99, 98>>                \* "cb": one it rejects
S_UP == <<85, 80>>                \* "UP": an upstream authorization code

UserA == [sub |-> Str(<<117, 49>>), email |-> Str(<<97, 64, 98, 46, 99>>),
          name |-> Undefined, given_name |-> Undefined]
\* name with a code unit outside Latin-1 (U+4E2D), no email
UserB == [sub |-> Str(<<117, 50>>), email |-> Undefined,
          name |-> Str(<<20013>>), given_name |-> Undefined]

UpOk(user) == [tokenOk |-> TRUE, tokens |-> [access_token |-> Str(<<65>>), id_token |-> Str(<<74>>)],
               userOk |-> TRUE, user |-> user, idOk |-> TRUE, IdentityId |-> Str(<<73>>)]

\* What the upstream services may answer during one /callback.
UpScenarios ==
    { UpOk(UserA), UpOk(UserB),
      [UpOk(UserA) EXCEPT !.tokenOk = FALSE],
      [UpOk(UserA) EXCEPT !.userOk = FALSE],
      [UpOk(UserA) EXCEPT !.tokens.id_token = Undefined],
      [UpOk(UserA) EXCEPT !.idOk = FALSE],
      [UpOk(UserA) EXCEPT !.IdentityId = Undefined] }

\* A code as a /callback at time 0 mints it for UserA.
SampleCodeDirect == createMCPAuthCodeDirect(UserA, 0).s
SampleCodeFederated ==
    createMCPAuthCodeFederated(Str(<<73>>), UserA.sub, UserA.email, UserA.email, 0).s
SampleCode(v) == IF v = "direct" THEN SampleCodeDirect ELSE SampleCodeFederated

\* A state parameter as /authorize writes it for client "x" and redirect URI "a:/cb".
SampleStateDirect == EncodeStateDirect(Str(S_x), Str(S_uri), Null, Null, Null)
SampleStateFederated == EncodeStateFederated(Str(S_x), Str(S_uri), Null, Null, Null)
SampleState(v) == IF v = "direct" THEN SampleStateDirect ELSE SampleStateFederated

\* Client ids a request may carry: one that no registration returns, and the
\* registered ones.
KnownClientIds == {Str(c) : c \in DOMAIN registeredClients}
ClientIdInputs == {Str(S_x)} \cup KnownClientIds

RegisterRequests ==
    {[method |-> "GET", body |-> MalformedBody]}
    \cup {[method |-> "POST", body |-> b] :
            b \in {MalformedBody, Obj(<<>>, <<>>),
                   Obj(<<K.redirect_uris>>, <<Arr(<<Str(S_uri)>>)>>)}}

AuthorizeRequest(client, redirect, state, challenge, method) ==
    [client_id |-> client, redirect_uri |-> redirect, state |-> state, scope |-> Null,
     code_challenge |-> challenge, code_challenge_method |-> method]

\* Without client_id; and for each client id: without redirect_uri, with it, and
\* with caller state and PKCE parameters as well.
AuthorizeRequests ==
    {AuthorizeRequest(Null, Str(S_uri), Null, Null, Null)}
    \cup {AuthorizeRequest(c, r, Null, Null, Null) : c \in ClientIdInputs, r \in {Null, Str(S_uri)}}
    \cup {AuthorizeRequest(c, Str(S_uri), Str(<<115>>), Str(<<99>>), Str(<<83, 50, 53, 54>>)) :
            c \in ClientIdInputs}

\* The state the upstream hands back when the last response was the redirect of
\* /authorize.
LastAuthorizeState ==
    IF resp.op = "authorize" /\ resp.res.status = 302
    THEN {QueryGet(UrlQuery(resp.res.location), K.state)} ELSE {}

\* The query of a /callback request.
CallbackQuery(code, state, error) ==
    JoinPairs((IF code = Null THEN <<>> ELSE << <<K.code, code.s>> >>)
              \o (IF state = Null THEN <<>> ELSE << <<K.state, state.s>> >>)
              \o (IF error = Null THEN <<>> ELSE << <<K.error, error.s>> >>), 1)

\* Requests that end before any upstream call get one upstream scenario only:
\* an upstream error, no code, no state, a state that is not JSON, the state "null".
\* The state "{}" parses but names no redirect URI.  One request carries `error=`
\* with an empty value beside a code and a state.
\* A well-formed state meets every upstream scenario.
FixedCallbackRequests(v) ==
    {[query |-> CallbackQuery(Str(S_UP), Str(SampleState(v)), Str(<<100>>)), up |-> UpOk(UserA)],
     [query |-> CallbackQuery(Str(S_UP), Str(SampleState(v)), Str(<<>>)), up |-> UpOk(UserA)],
     [query |-> CallbackQuery(Null, Str(SampleState(v)), Null), up |-> UpOk(UserA)]}
    \cup {[query |-> CallbackQuery(Str(S_UP), s, Null), up |-> UpOk(UserA)] :
            s \in {Null, Str(<<120>>), Str(S.null), Str(<<123, 125>>)}}
    \cup {[query |-> CallbackQuery(Str(S_UP), Str(SampleState(v)), Null), up |-> u] :
            u \in UpScenarios}

\* handleCallback of the deployment v.
handleCallback(v, query, up, t) ==
    IF v = "direct" THEN handleCallbackDirect(query, up, t)
    ELSE handleCallbackFederated(query, up, t)

\* handleCallback reads neither store: what it answers to each fixed request at each
\* time is computed once.
FixedCallbackResponses ==
    [v \in Variants |-> [t \in 0..MaxTime |->
        [req \in FixedCallbackRequests(v) |-> handleCallback(v, req.query, req.up, t)]]]

CallbackRequests ==
    DOMAIN FixedCallbackResponses[variant][now]
    \cup {[query |-> CallbackQuery(Str(S_UP), s, Null), up |-> UpOk(UserA)] :
            s \in LastAuthorizeState}

CallbackResponse(req) ==
    IF req \in DOMAIN FixedCallbackResponses[variant][now]
    THEN FixedCallbackResponses[variant][now][req]
    ELSE handleCallback(variant, req.query, req.up, now)

\* The code a client presents when the last response was the redirect of /callback.
LastCallbackCode ==
    IF resp.op = "callback" /\ resp.res.status = 302
    THEN {QueryGet(UrlQuery(resp.res.location), K.code)} ELSE {}

\* Codes: empty, not base64, base64 of "{" (not JSON), base64 of "null", of "7" and
\* of "{}" (JSON, but no identity), a minted one.
BadCodes ==
    {Str(<<>>), Str(<<33, 33>>), Str(Btoa(<<123>>).s), Str(Btoa(S.null).s),
     Str(Btoa(<<55>>).s), Str(Btoa(<<123, 125>>).s)}
TokenCodes == BadCodes \cup {Str(SampleCode(variant))} \cup LastCallbackCode

TokenRequest(method, grant, code, client, verifier, redirect) ==
    [method |-> method, grant_type |-> grant, code |-> code, client_id |-> client,
     code_verifier |-> verifier, redirect_uri |-> redirect]

\* A GET (its body is not read); POSTs without grant_type or with another one, over
\* the other parameters; POSTs with authorization_code: without code, without
\* client_id, with every code for every client id, with verifier and redirect_uri.
TokenRequests ==
    {TokenRequest("GET", Null, Null, Null, Null, Null)}
    \cup {TokenRequest("POST", g, Null, Null, Null, Null) : g \in {Null, Str(S.refresh_token)}}
    \cup {TokenRequest("POST", g, Str(SampleCode(variant)), k, e, e) :
            g \in {Null, Str(S.refresh_token)}, k \in ClientIdInputs, e \in {Null, Str(S_uri)}}
    \cup {TokenRequest("POST", Str(S.authorization_code), Null, Str(S_x), Null, Null),
          TokenRequest("POST", Str(S.authorization_code), Str(SampleCode(variant)), Null, Null, Null)}
    \cup {TokenRequest("POST", Str(S.authorization_code), c, k, Null, Null) :
            c \in TokenCodes, k \in ClientIdInputs}
    \cup {TokenRequest("POST", Str(S.authorization_code), Str(SampleCode(variant)), k,
                       Str(S_x), Str(S_uri)) : k \in ClientIdInputs}

\* Authorization header values as request.headers.get returns them (no white space
\* at either end): absent, "Basic x", "Bearer", "Bearer x", and "Bearer " followed by
\* each access token issued so far.
AuthHeaders ==
    {Null, Str(<<66, 97, 115, 105, 99, 32, 120>>), Str(<<66, 101, 97, 114, 101, 114>>),
     Str(S.Bearer \o S_x)}
    \cup {Str(S.Bearer \o tok) : tok \in issuedTokens}

ResourceRequests ==
    {[path |-> p, authorization |-> h] : p \in ProtectedPaths, h \in AuthHeaders}
    \cup {[path |-> "/other", authorization |-> Null]}

(***************************************************************************)
(* Initial state and actions: one per request handled.                     *)
(***************************************************************************)
NoResp == [op |-> "none", req |-> Null, res |-> BaseRes]
Idle == [pc |-> "idle"]

Init ==
    /\ variant \in Variants
    /\ now = 0
    /\ registeredClients = EmptyMap
    /\ tokenStore = EmptyMap
    /\ issuedTokens = {}
    /\ resp = NoResp
    /\ codec = Idle

\* The clock advances.
Tick ==
    /\ now < MaxTime
    /\ now' = now + 1
    /\ UNCHANGED <<variant, registeredClients, tokenStore, issuedTokens, resp, codec>>

Register ==
    \E req \in RegisterRequests, rnd \in RandomStrings :
        \E r \in {handleRegister(req.method, req.body, registeredClients, now, rnd)} :
            /\ Cardinality(DOMAIN r.reg) <= MaxRegs
            /\ registeredClients' = r.reg
            /\ resp' = [op |-> "register", req |-> req, res |-> r.res]
            /\ UNCHANGED <<variant, now, tokenStore, issuedTokens, codec>>

Authorize ==
    \E req \in AuthorizeRequests :
        /\ resp' = [op |-> "authorize", req |-> req,
                    res |-> IF variant = "direct"
                            THEN handleAuthorizeDirect(req, registeredClients)
                            ELSE handleAuthorizeFederated(req, registeredClients)]
        /\ UNCHANGED <<variant, now, registeredClients, tokenStore, issuedTokens, codec>>

Callback ==
    \E req \in CallbackRequests :
        /\ resp' = [op |-> "callback", req |-> req, res |-> CallbackResponse(req)]
        /\ UNCHANGED <<variant, now, registeredClients, tokenStore, issuedTokens, codec>>

Token ==
    \E req \in TokenRequests, rnd \in RandomStrings :
        \E r \in {IF variant = "direct"
                   THEN handleTokenDirect(req, registeredClients, tokenStore, now, rnd)
                   ELSE handleTokenFederated(req, registeredClients, tokenStore, now, rnd)} :
            /\ issuedTokens' = IF r.res.status = 200
                               THEN issuedTokens \cup {r.res.access_token}
                               ELSE issuedTokens
            /\ Cardinality(issuedTokens') <= MaxTokens
            /\ tokenStore' = r.store
            /\ resp' = [op |-> "token", req |-> req, res |-> r.res]
            /\ UNCHANGED <<variant, now, registeredClients, codec>>

Resource ==
    \E req \in ResourceRequests :
        /\ resp' = [op |-> "resource", req |-> req,
                    res |-> IF variant = "direct"
                            THEN fetchStub(req.path, req.authorization)
                            ELSE fetchIndex(req.path, req.authorization, tokenStore)]
        /\ UNCHANGED <<variant, now, registeredClients, tokenStore, issuedTokens, codec>>

Next == Tick \/ Register \/ Authorize \/ Callback \/ Token \/ Resource

Spec == Init /\ [][Next]_vars

(***************************************************************************)
(* The relay state on its way: /authorize of src/unnamed/part_000 writes   *)
(* it into the upstream URL, the upstream hands the `state` parameter back *)
(* in the query of /callback, /callback reads and parses it.               *)
(***************************************************************************)
\* Strings with the characters that JSON and the query serialization treat
\* specially: quote, backslash, slash, line feed, U+00E9, U+4E2D; space, "+", "&",
\* "=", "%", "~".
S_quoted == <<34, 92, 47, 10, 233, 20013>>
S_reserved == <<32, 43, 38, 61, 37, 126>>

\* What a client hands to /authorize: client id and redirect URI are non-empty; the
\* caller state and the PKCE parameters are strings or absent (null).
RelayStates ==
    {AuthorizeRequest(Str(c), Str(r), s, x[1], x[2]) :
        c \in {S_x, S_reserved},
        r \in {S_uri, S_uri \o <<63>> \o S_reserved \o S_quoted},
        s \in {Null, Str(<<>>), Str(<<115>>), Str(S_quoted), Str(S_reserved)},
        x \in {<<Null, Null>>, <<Str(S_reserved), Str(<<83, 50, 53, 54>>)>>,
               <<Str(<<99>>), Null>>}}

InitState ==
    /\ Init
    /\ variant = "federated"

\* /authorize answers with the redirect to the upstream.
AuthorizeEncodes ==
    /\ codec.pc = "idle"
    /\ \E r \in RelayStates :
        codec' = [pc |-> "redirected", r |-> r,
                  location |-> handleAuthorizeFederated(r, registeredClients).location]
    /\ UNCHANGED <<variant, now, registeredClients, tokenStore, issuedTokens, resp>>

\* The upstream reads `state` from the URL it was sent to and puts it, with its
\* code, into the query of its redirect to /callback.
UpstreamReturns ==
    /\ codec.pc = "redirected"
    /\ codec' = [pc |-> "returned", r |-> codec.r,
                 query |-> CallbackQuery(Str(S_UP),
                                         QueryGet(UrlQuery(codec.location), K.state), Null)]
    /\ UNCHANGED <<variant, now, registeredClients, tokenStore, issuedTokens, resp>>

\* /callback: JSON.parse(url.searchParams.get("state")).
CallbackDecodes ==
    /\ codec.pc = "returned"
    /\ \E state \in {QueryGet(codec.query, K.state)} :
        codec' = [pc |-> "decoded", r |-> codec.r,
                  stateData |-> IF state = Null THEN ParseFail ELSE JSONParse(state.s)]
    /\ UNCHANGED <<variant, now, registeredClients, tokenStore, issuedTokens, resp>>

NextState == AuthorizeEncodes \/ UpstreamReturns \/ CallbackDecodes

SpecState == InitState /\ [][NextState]_vars

(***************************************************************************)
(* The authorization code on its way: createMCPAuthCode mints it from the  *)
(* resolved identity, handleToken decodes it.                              *)
(***************************************************************************)
\* Subject, email and display name as the upstream userinfo gives them; the name
\* covers ASCII, Latin-1 (U+00E9), a quote and U+4E2D.
Identities ==
    {[sub |-> Str(u), email |-> e, name |-> n, given_name |-> Undefined] :
        u \in {<<117, 49>>, <<117, 50>>},
        e \in {Undefined, Str(<<97, 64, 98, 46, 99>>)},
        n \in {Undefined, Str(<<65>>), Str(<<233>>), Str(<<65, 34>>), Str(<<20013>>)}}

\* The code /callback mints for the identity id at time t in deployment v; the
\* federated handler resolves the display name before it calls createMCPAuthCode.
MintCode(v, id, t) ==
    IF v = "direct" THEN createMCPAuthCodeDirect(id, t)
    ELSE createMCPAuthCodeFederated(Str(<<73>>), id.sub, id.email,
            OrElse(OrElse(id.name, id.given_name), id.email), t)

\* The members of the object the code is minted from.
IdentityFields(v, id) ==
    IF v = "direct"
    THEN [sub |-> id.sub, email |-> id.email,
          name |-> OrElse(OrElse(id.name, id.given_name), id.email)]
    ELSE [cognitoIdentityId |-> Str(<<73>>), googleUserId |-> id.sub, email |-> id.email,
          name |-> OrElse(OrElse(id.name, id.given_name), id.email)]

\* The same members read from a decoded code.
DecodedFields(v, tokenData) ==
    IF v = "direct"
    THEN [sub |-> ObjGet(tokenData, K.sub), email |-> ObjGet(tokenData, K.email),
          name |-> ObjGet(tokenData, K.name)]
    ELSE [cognitoIdentityId |-> ObjGet(tokenData, K.cognitoIdentityId),
          googleUserId |-> ObjGet(tokenData, K.googleUserId),
          email |-> ObjGet(tokenData, K.email), name |-> ObjGet(tokenData, K.name)]

\* The shape createMCPAuthCode gives the payload of a code: an object with the
\* subject members (MCPTokenData: cognitoIdentityId and googleUserId; the direct
\* handler's authData: sub).
IdentityShape(v, val) ==
    /\ val.t = "object"
    /\ IF v = "direct" THEN Truthy(ObjGet(val, K.sub))
       ELSE Truthy(ObjGet(val, K.cognitoIdentityId)) /\ Truthy(ObjGet(val, K.googleUserId))

\* createMCPAuthCode runs: it returns the code, or btoa throws.
CodeIssued ==
    /\ codec.pc = "idle"
    /\ \E id \in Identities :
        codec' = [pc |-> "issued", id |-> id, code |-> MintCode(variant, id, now)]
    /\ UNCHANGED <<variant, now, registeredClients, tokenStore, issuedTokens, resp>>

\* handleToken decodes the code it was handed.
CodeRedeemed ==
    /\ codec.pc = "issued"
    /\ codec.code.ok
    /\ codec' = [pc |-> "redeemed", id |-> codec.id, tokenData |-> DecodeAuthCode(codec.code.s)]
    /\ UNCHANGED <<variant, now, registeredClients, tokenStore, issuedTokens, resp>>

NextCode == Tick \/ CodeIssued \/ CodeRedeemed

SpecCode == Init /\ [][NextCode]_vars

(***************************************************************************)
(* One authorization attempt from end to end: the client registers with an *)
(* empty body object, asks /authorize with the id it got, the upstream     *)
(* sends the browser back to /callback with its code and the state it was  *)
(* given, the client redeems the code of the final redirect at /token and  *)
(* presents the access token on a protected path.  codec.pc tells how far  *)
(* the attempt is; each step is the handler of the deployment.             *)
(***************************************************************************)
S_uri2 == <<98, 58, 47, 99, 98>>  \* "b:/cb"

\* The upstream answers every call successfully, for either user.
UpAllOk == {UpOk(UserA), UpOk(UserB)}

FlowRegister ==
    /\ codec.pc = "idle"
    /\ \E rnd \in RandomStrings :
        \E r \in {handleRegister("POST", Obj(<<>>, <<>>), registeredClients, now, rnd)} :
            /\ registeredClients' = r.reg
            /\ resp' = [op |-> "register", req |-> [method |-> "POST", body |-> Obj(<<>>, <<>>)],
                        res |-> r.res]
    /\ codec' = [pc |-> "registered"]
    /\ UNCHANGED <<variant, now, tokenStore, issuedTokens>>

FlowAuthorize ==
    /\ codec.pc = "registered"
    /\ resp.res.status = 201
    /\ \E redirect \in {S_uri, S_uri2, S_x},
          state \in {Null, Str(<<>>), Str(<<115>>), Str(S_reserved)} :
        \E req \in {AuthorizeRequest(Str(resp.res.client_id), Str(redirect), state, Null, Null)} :
            /\ resp' = [op |-> "authorize", req |-> req,
                        res |-> IF variant = "direct"
                                THEN handleAuthorizeDirect(req, registeredClients)
                                ELSE handleAuthorizeFederated(req, registeredClients)]
            /\ codec' = [pc |-> "authorized", client_id |-> resp.res.client_id,
                         redirect_uri |-> redirect, state |-> state]
    /\ UNCHANGED <<variant, now, registeredClients, tokenStore, issuedTokens>>

FlowCallback ==
    /\ codec.pc = "authorized"
    /\ resp.res.status = 302
    /\ \E up \in UpAllOk :
        \E req \in {[query |-> CallbackQuery(Str(S_UP),
                                              QueryGet(UrlQuery(resp.res.location), K.state), Null),
                      up |-> up]} :
            resp' = [op |-> "callback", req |-> req,
                     res |-> handleCallback(variant, req.query, req.up, now)]
    /\ codec' = [codec EXCEPT !.pc = "called back"]
    /\ UNCHANGED <<variant, now, registeredClients, tokenStore, issuedTokens>>

FlowToken ==
    /\ codec.pc = "called back"
    /\ resp.res.status = 302
    /\ \E rnd \in RandomStrings :
        \E req \in {TokenRequest("POST", Str(S.authorization_code),
                                  QueryGet(UrlQuery(resp.res.location), K.code),
                                  Str(codec.client_id), Null, Str(codec.redirect_uri))} :
            \E r \in {IF variant = "direct"
                       THEN handleTokenDirect(req, registeredClients, tokenStore, now, rnd)
                       ELSE handleTokenFederated(req, registeredClients, tokenStore, now, rnd)} :
                /\ issuedTokens' = IF r.res.status = 200
                                   THEN issuedTokens \cup {r.res.access_token}
                                   ELSE issuedTokens
                /\ tokenStore' = r.store
                /\ resp' = [op |-> "token", req |-> req, res |-> r.res]
    /\ codec' = [codec EXCEPT !.pc = "redeemed"]
    /\ UNCHANGED <<variant, now, registeredClients>>

FlowResource ==
    /\ codec.pc = "redeemed"
    /\ resp.res.status = 200
    /\ \E path \in ProtectedPaths :
        \E req \in {[path |-> path, authorization |-> Str(S.Bearer \o resp.res.access_token)]} :
            resp' = [op |-> "resource", req |-> req,
                     res |-> IF variant = "direct"
                             THEN fetchStub(req.path, req.authorization)
                             ELSE fetchIndex(req.path, req.authorization, tokenStore)]
    /\ codec' = [codec EXCEPT !.pc = "validated"]
    /\ UNCHANGED <<variant, now, registeredClients, tokenStore, issuedTokens>>

\* Before any /callback has run, a client presents at /token a code it built itself:
\* base64 of the JSON an identity would have.  The attempt ends there.
FlowTokenUnsolicited ==
    /\ codec.pc \in {"idle", "registered", "authorized"}
    /\ \E rnd \in RandomStrings, client \in ClientIdInputs :
        \E req \in {TokenRequest("POST", Str(S.authorization_code), Str(SampleCode(variant)),
                                  client, Null, Null)} :
            \E r \in {IF variant = "direct"
                       THEN handleTokenDirect(req, registeredClients, tokenStore, now, rnd)
                       ELSE handleTokenFederated(req, registeredClients, tokenStore, now, rnd)} :
                /\ issuedTokens' = IF r.res.status = 200
                                   THEN issuedTokens \cup {r.res.access_token}
                                   ELSE issuedTokens
                /\ tokenStore' = r.store
                /\ resp' = [op |-> "token", req |-> req, res |-> r.res]
    /\ codec' = [pc |-> "unsolicited"]
    /\ UNCHANGED <<variant, now, registeredClients>>

NextFlow ==
    \/ Tick \/ FlowRegister \/ FlowAuthorize \/ FlowCallback \/ FlowToken \/ FlowResource
    \/ FlowTokenUnsolicited

SpecFlow == Init /\ [][NextFlow]_vars

(***************************************************************************)
(* Two /callback handlings in flight at once.  A handling runs from the    *)
(* request to its first upstream fetch, and is resumed at each `await      *)
(* fetch` when the upstream has answered; between two resumptions the      *)
(* other handling, /register, /token and the clock may run.  codec.h[i]    *)
(* holds what handling i keeps in its own constants: the request (query,   *)
(* and what the upstream answers to it), where it is suspended (pc), the   *)
(* parsed relay state, and in the end its response and the Date.now() its  *)
(* code was minted at.                                                     *)
(***************************************************************************)
\* Every handling reading the constants of handling 1, as if they were kept in
\* variables of the module.
SharedLocals(i) ==
    IF codec.pc = "idle"
    THEN [pc |-> "free", query |-> <<>>, up |-> UpOk(UserA), stateData |-> Null,
          res |-> BaseRes, t |-> 0]
    ELSE codec.h[1]

\* The constants of handling i (code, state, stateData, googleTokens, ...).
Locals(i) ==
    IF codec.pc = "idle"
    THEN [pc |-> "free", query |-> <<>>, up |-> UpOk(UserA), stateData |-> Null,
          res |-> BaseRes, t |-> 0]
    ELSE codec.h[i]

\* handleCallback from the request to the first upstream fetch: the parameter
\* checks, JSON.parse(state) and the destructuring.  The requests carry the relay
\* state of client "x" for a:/cb, one for b:/cb with caller state "s", or a state
\* that is not JSON; the upstream resolves them to one of two users, to the user
\* whose name btoa rejects, or fails.
ConcBegin(i) ==
    /\ Locals(i).pc = "free"
    /\ \E stateA \in {Str(SampleState(variant))},
          stateB \in {Str(IF variant = "direct"
                          THEN EncodeStateDirect(Str(S_x), Str(S_uri2), Str(<<115>>), Null, Null)
                          ELSE EncodeStateFederated(Str(S_x), Str(S_uri2), Str(<<115>>), Null, Null))} :
       \E rq \in {<<stateA, UpOk(UserA)>>,
                  <<stateB, UpOk([UserA EXCEPT !.sub = Str(<<117, 51>>)])>>,
                  <<stateA, [UpOk(UserA) EXCEPT !.userOk = FALSE]>>,
                  <<stateB, [UpOk(UserA) EXCEPT !.IdentityId = Undefined]>>,
                  <<Str(<<120>>), UpOk(UserA)>>} :
        \E state \in {rq[1]}, up \in {rq[2]} :
        \E stateData \in {JSONParse(state.s)} :
            codec' = [pc |-> "serving",
                      h |-> [j \in 1..2 |->
                                IF j # i THEN Locals(j)
                                ELSE IF ~stateData.ok \/ ~HasProps(stateData.val)
                                     THEN [pc |-> "done",
                                           query |-> CallbackQuery(Str(S_UP), state, Null),
                                           up |-> up, stateData |-> Null,
                                           res |-> Failed500(<<>>), t |-> now]
                                     ELSE [pc |-> "token",
                                           query |-> CallbackQuery(Str(S_UP), state, Null),
                                           up |-> up, stateData |-> stateData.val,
                                           res |-> BaseRes, t |-> now]]]
    /\ UNCHANGED <<variant, now, registeredClients, tokenStore, issuedTokens, resp>>

\* Handling i is resumed where it awaits: after the token exchange it asks for the
\* user; after the userinfo answer the federated handler asks for the identity id;
\* after the last answer it mints the code (Date.now() is read then) and builds
\* the final redirect.  A failed answer, btoa or new URL throwing end it with 500.
ConcResume(i) ==
    /\ Locals(i).pc \in {"token", "userinfo", "getid"}
    /\ \E h \in {Locals(i)} :
        \E redirectUri \in {ObjGet(h.stateData, IF variant = "direct" THEN K.originalRedirectUri
                                                ELSE K.mcpRedirectUri)},
           callerState \in {ObjGet(h.stateData, IF variant = "direct" THEN K.originalState
                                                ELSE K.mcpState)},
           calls \in {IF variant = "direct" THEN <<"token", "userinfo">>
                      ELSE <<"token", "userinfo", "getid">>} :
            \E next \in
                {IF h.pc = "token"
                 THEN (IF ~h.up.tokenOk THEN [pc |-> "done", res |-> Failed500(<<"token">>)]
                       ELSE [pc |-> "userinfo", res |-> BaseRes])
                 ELSE IF h.pc = "userinfo" /\ ~h.up.userOk
                 THEN [pc |-> "done", res |-> Failed500(<<"token", "userinfo">>)]
                 ELSE IF h.pc = "userinfo" /\ variant = "federated"
                 THEN (IF ~HasProps(h.up.tokens.id_token)
                       THEN [pc |-> "done", res |-> Failed500(<<"token", "userinfo">>)]
                       ELSE [pc |-> "getid", res |-> BaseRes])
                 ELSE IF variant = "federated" /\ ~getCognitoIdentityId(h.up.tokens.id_token, h.up).ok
                 THEN [pc |-> "done", res |-> Failed500(calls)]
                 ELSE LET Finish(code) ==
                            IF ~code.ok \/ ~URLParses(redirectUri) THEN Failed500(calls)
                            ELSE [FinalRedirect(redirectUri, code.s, callerState)
                                    EXCEPT !.calls = calls]
                      IN  [pc |-> "done",
                           res |-> Finish(IF variant = "direct"
                                          THEN createMCPAuthCodeDirect(h.up.user, now)
                                          ELSE createMCPAuthCodeFederated(
                                                  h.up.IdentityId, h.up.user.sub, h.up.user.email,
                                                  OrElse(OrElse(h.up.user.name, h.up.user.given_name),
                                                         h.up.user.email), now))]} :
                codec' = [codec EXCEPT !.h[i].pc = next.pc, !.h[i].res = next.res, !.h[i].t = now]
    /\ UNCHANGED <<variant, now, registeredClients, tokenStore, issuedTokens, resp>>

\* One /register or /token request that writes to its store is handled between
\* two steps of the handlings.
ConcRegister == resp = NoResp /\ Register /\ resp'.res.status = 201

ConcToken == resp = NoResp /\ Token /\ resp'.res.status = 200

NextConc ==
    Tick \/ ConcRegister \/ ConcToken \/ (\E i \in 1..2 : ConcBegin(i) \/ ConcResume(i))

SpecConc == Init /\ [][NextConc]_vars

(***************************************************************************)
(* Properties.                                                             *)
(***************************************************************************)

\* C1: a request to a protected path that carries "Bearer t", t never returned as
\* access_token by a successful /token of this process, is answered 401
\* invalid_token and does not reach the agent -- in both deployments.
UnissuedBearerRejected ==
    (/\ resp.op = "resource"
     /\ resp.req.path \in ProtectedPaths
     /\ ~NoBearer(resp.req.authorization)
     /\ Substring(resp.req.authorization.s, 7) \notin issuedTokens)
    => (resp.res.status = 401 /\ resp.res.error = "invalid_token" /\ ~resp.res.agent)

\* C2: a request to a protected path reaches the agent only when requireAuth
\* returned no error for it; without an Authorization header, or with one that does
\* not start with "Bearer ", it is answered 401 with WWW-Authenticate: Bearer and the
\* agent is not invoked.
GateBeforeAgent ==
    resp.op = "resource" =>
        /\ resp.res.agent =>
            /\ resp.req.path \in ProtectedPaths
            /\ (IF variant = "direct" THEN requireAuthStub(resp.req.authorization)
                ELSE requireAuth(resp.req.authorization, tokenStore)).error = Null
        /\ (resp.req.path \in ProtectedPaths /\ NoBearer(resp.req.authorization)) =>
            /\ resp.res.status = 401
            /\ resp.res.wwwAuth
            /\ ~resp.res.agent

\* A request with an issued token has reached the agent behind the token-store gate.
GateBeforeAgentWitness ==
    /\ variant = "federated"
    /\ resp.op = "resource"
    /\ resp.res.agent
    /\ Substring(resp.req.authorization.s, 7) \in issuedTokens

\* C3: a POST /token with grant_type=authorization_code, a non-empty code and a
\* client_id that is not in the registry is answered 401 invalid_client and mints no
\* token -- in both handlers.
UnregisteredClientRejectedAtToken ==
    (/\ resp.op = "token"
     /\ resp.req.method = "POST"
     /\ resp.req.grant_type = Str(S.authorization_code)
     /\ Truthy(resp.req.code)
     /\ Truthy(resp.req.client_id)
     /\ resp.req.client_id.s \notin DOMAIN registeredClients)
    => (resp.res.status = 401 /\ resp.res.error = "invalid_client"
        /\ resp.res.access_token = <<>>)

\* C4: a GET /authorize with non-empty client_id and redirect_uri whose client_id is
\* not in the registry is answered 401 and issues no redirect -- in both handlers.
UnknownClientRejectedAtAuthorize ==
    (/\ resp.op = "authorize"
     /\ Truthy(resp.req.client_id)
     /\ Truthy(resp.req.redirect_uri)
     /\ resp.req.client_id.s \notin DOMAIN registeredClients)
    => (resp.res.status = 401 /\ resp.res.location = <<>>)

\* C5: every client_id a successful /register returns differs from every client_id
\* returned earlier.  (The registry holds exactly the ids returned so far: a 201
\* stores its id, and nothing removes one.)
RegisterReturnsFreshId ==
    [][(resp' # resp /\ resp'.op = "register" /\ resp'.res.status = 201)
        => resp'.res.client_id \notin DOMAIN registeredClients]_vars

\* C6: once /register has returned 201 with client_id c, every later /authorize
\* with client_id = c and a non-empty redirect_uri is answered 302: a returned id is
\* in the registry, no step removes an id from it, and /authorize with an id of the
\* registry and a redirect_uri answers 302.
RegisteredClientAuthorizes ==
    [][/\ (resp'.op = "register" /\ resp'.res.status = 201)
            => resp'.res.client_id \in DOMAIN registeredClients'
       /\ DOMAIN registeredClients \subseteq DOMAIN registeredClients'
       /\ (/\ resp'.op = "authorize"
           /\ Truthy(resp'.req.client_id)
           /\ resp'.req.client_id.s \in DOMAIN registeredClients'
           /\ Truthy(resp'.req.redirect_uri))
            => resp'.res.status = 302]_vars

\* The handler that looks the client up has answered 302 to a registered client, at
\* a time later than the registration.
RegisteredClientAuthorizesWitness ==
    /\ variant = "direct"
    /\ resp.op = "authorize"
    /\ resp.res.status = 302
    /\ resp.req.client_id.s \in DOMAIN registeredClients
    /\ registeredClients[resp.req.client_id.s].created_at < now

\* C7: the relay state that /callback parses from its `state` parameter equals,
\* member by member, what /authorize was given: client id, redirect URI, caller
\* state (absent and empty included), PKCE challenge and method (absent included).
StateRoundTrip ==
    codec.pc = "decoded" =>
        /\ codec.stateData.ok
        /\ ObjGet(codec.stateData.val, K.mcpClientId) = codec.r.client_id
        /\ ObjGet(codec.stateData.val, K.mcpRedirectUri) = codec.r.redirect_uri
        /\ ObjGet(codec.stateData.val, K.mcpState) = codec.r.state
        /\ ObjGet(codec.stateData.val, K.codeChallenge) = codec.r.code_challenge
        /\ ObjGet(codec.stateData.val, K.codeChallengeMethod) = codec.r.code_challenge_method

\* A relay state with quote, backslash and non-ASCII characters in the caller state,
\* reserved characters in the client id and no PKCE method has made the trip.
StateRoundTripWitness ==
    /\ codec.pc = "decoded"
    /\ codec.r.state = Str(S_quoted)
    /\ codec.r.client_id = Str(S_reserved)
    /\ codec.r.code_challenge_method = Null
    /\ codec.r.code_challenge # Null

\* C8: for every identity (names outside Latin-1 and an absent email included)
\* createMCPAuthCode succeeds, and decoding the code at /token gives the identity's
\* members back.
CodeRoundTrip ==
    /\ codec.pc = "issued" => codec.code.ok
    /\ codec.pc = "redeemed" =>
        /\ codec.tokenData.ok
        /\ DecodedFields(variant, codec.tokenData.val) = IdentityFields(variant, codec.id)

\* C9 (as stated): every /token request whose grant_type is absent or is not
\* authorization_code is answered 400 invalid_request, whatever the other parameters
\* and the request method, and mints no token.
OtherGrantRejected ==
    [][(resp'.op = "token" /\ resp'.req.grant_type # Str(S.authorization_code))
        => (/\ resp'.res.status = 400
            /\ resp'.res.error = "invalid_request"
            /\ resp'.res.access_token = <<>>
            /\ tokenStore' = tokenStore
            /\ issuedTokens' = issuedTokens)]_vars

\* C9 (amended): every POST /token whose grant_type is absent or is not
\* authorization_code is answered 400 invalid_request, whatever the other
\* parameters, and mints no token.
OtherGrantRejectedOnPost ==
    [][(/\ resp'.op = "token"
        /\ resp'.req.method = "POST"
        /\ resp'.req.grant_type # Str(S.authorization_code))
        => (/\ resp'.res.status = 400
            /\ resp'.res.error = "invalid_request"
            /\ resp'.res.access_token = <<>>
            /\ tokenStore' = tokenStore
            /\ issuedTokens' = issuedTokens)]_vars

\* A POST with grant_type=refresh_token, a redeemable code, a registered client,
\* redirect_uri and code_verifier has been answered 400.
OtherGrantRejectedWitness ==
    /\ resp.op = "token"
    /\ resp.req.method = "POST"
    /\ resp.req.grant_type = Str(S.refresh_token)
    /\ resp.req.code # Null
    /\ DecodeAuthCode(resp.req.code.s).ok
    /\ resp.req.client_id # Null
    /\ resp.req.client_id.s \in DOMAIN registeredClients
    /\ resp.req.redirect_uri # Null
    /\ resp.req.code_verifier # Null
    /\ resp.res.status = 400

\* C10 (as stated): a POST /token with grant_type=authorization_code, a registered
\* client_id and a code that is not valid base64, or whose payload is not valid
\* JSON, is answered 400 invalid_grant and leaves the token store unchanged.
MalformedCodeRejected ==
    [][(/\ resp'.op = "token"
        /\ resp'.req.method = "POST"
        /\ resp'.req.grant_type = Str(S.authorization_code)
        /\ Truthy(resp'.req.client_id)
        /\ resp'.req.client_id.s \in DOMAIN registeredClients
        /\ resp'.req.code # Null
        /\ ~DecodeAuthCode(resp'.req.code.s).ok)
        => (/\ resp'.res.status = 400
            /\ resp'.res.error = "invalid_grant"
            /\ tokenStore' = tokenStore)]_vars

\* C10 (amended): a POST /token with grant_type=authorization_code, a registered
\* client_id and a non-empty code that is not valid base64, or whose payload is
\* not valid JSON, is answered 400 invalid_grant and leaves the token store
\* unchanged.
NonEmptyMalformedCodeRejected ==
    [][(/\ resp'.op = "token"
        /\ resp'.req.method = "POST"
        /\ resp'.req.grant_type = Str(S.authorization_code)
        /\ Truthy(resp'.req.client_id)
        /\ resp'.req.client_id.s \in DOMAIN registeredClients
        /\ Truthy(resp'.req.code)
        /\ ~DecodeAuthCode(resp'.req.code.s).ok)
        => (/\ resp'.res.status = 400
            /\ resp'.res.error = "invalid_grant"
            /\ tokenStore' = tokenStore)]_vars

\* The handler that checks the registry has answered invalid_grant to a registered
\* client whose code is not base64 ("!!") or decodes to a payload that is not JSON
\* (base64 of "{").
MalformedCodeRejectedWitness ==
    /\ variant = "direct"
    /\ resp.op = "token"
    /\ resp.req.method = "POST"
    /\ resp.req.grant_type = Str(S.authorization_code)
    /\ resp.req.client_id # Null
    /\ resp.req.client_id.s \in DOMAIN registeredClients
    /\ resp.req.code \in {Str(<<33, 33>>), Str(Btoa(<<123>>).s)}
    /\ resp.res.status = 400
    /\ resp.res.error = "invalid_grant"

\* C11: a POST /token whose code decodes (base64 of JSON) to something that is not
\* an identity -- null, a number, an object without the subject members -- is
\* answered 400 invalid_grant; no access token is minted and nothing is stored.
WrongShapeCodeRejected ==
    [][(/\ resp'.op = "token"
        /\ resp'.req.method = "POST"
        /\ resp'.req.grant_type = Str(S.authorization_code)
        /\ Truthy(resp'.req.client_id)
        /\ resp'.req.client_id.s \in DOMAIN registeredClients
        /\ Truthy(resp'.req.code)
        /\ DecodeAuthCode(resp'.req.code.s).ok
        /\ ~IdentityShape(variant, DecodeAuthCode(resp'.req.code.s).val))
        => (/\ resp'.res.status = 400
            /\ resp'.res.error = "invalid_grant"
            /\ resp'.res.access_token = <<>>
            /\ tokenStore' = tokenStore)]_vars

\* C12: when /token answers 200 with access_token t for a code that embeds the
\* identity id, the token store maps t to id, and from then on validating t
\* succeeds and returns that same id: a step neither removes the entry nor maps t to
\* anything else.
TokenBindingKept ==
    [][/\ (/\ variant = "federated"
           /\ resp'.op = "token"
           /\ resp'.res.status = 200
           /\ IdentityShape(variant, DecodeAuthCode(resp'.req.code.s).val))
            => requireAuth(Str(S.Bearer \o resp'.res.access_token), tokenStore').userInfo
                  = DecodeAuthCode(resp'.req.code.s).val
       /\ \A tok \in DOMAIN tokenStore :
            IdentityShape("federated", tokenStore[tok])
                => requireAuth(Str(S.Bearer \o tok), tokenStore').userInfo = tokenStore[tok]]_vars

\* C13: with every upstream call answering successfully, register (empty body
\* object) -> /authorize -> /callback -> POST /token -> protected path goes through:
\* 201, then 302, then a 302 to the original redirect_uri that carries the
\* downstream code, then 200 with access_token, token_type Bearer and expires_in
\* 3600, and the access token passes the gate.
FlowCompletes ==
    /\ codec.pc = "registered" => resp.res.status = 201
    /\ codec.pc = "authorized" => resp.res.status = 302
    /\ codec.pc = "called back" =>
        /\ resp.res.status = 302
        /\ StartsWith(resp.res.location, codec.redirect_uri \o <<63>>)
        /\ Truthy(QueryGet(UrlQuery(resp.res.location), K.code))
    /\ codec.pc = "redeemed" =>
        /\ resp.res.status = 200
        /\ Len(resp.res.access_token) > 0
        /\ resp.res.token_type = "Bearer"
        /\ resp.res.expires_in = 3600
    /\ codec.pc = "validated" => resp.res.agent

\* C14: a /callback with a code and a `state` that is not a relay state -- it does
\* not parse, or it parses to something without the redirect URI -- is answered 400,
\* and no upstream call is made for it.
MalformedStateRejected ==
    (/\ resp.op = "callback"
     /\ ~Truthy(QueryGet(resp.req.query, K.error))
     /\ Truthy(QueryGet(resp.req.query, K.code))
     /\ Truthy(QueryGet(resp.req.query, K.state))
     /\ \/ ~JSONParse(QueryGet(resp.req.query, K.state).s).ok
        \/ ~Truthy(ObjGet(JSONParse(QueryGet(resp.req.query, K.state).s).val,
                          IF variant = "direct" THEN K.originalRedirectUri
                          ELSE K.mcpRedirectUri)))
    => (resp.res.status = 400 /\ resp.res.calls = <<>>)

\* C15: within one /callback of the federated handler the upstream calls are made
\* in the order token exchange, userinfo, GetId, each at most once and each only
\* after the one before it succeeded; when one of them fails, none follows it, no
\* code is minted and the answer is an error, never a redirect.
UpstreamCallsInOrder ==
    (resp.op = "callback" /\ variant = "federated") =>
        /\ resp.res.calls \in {<<>>, <<"token">>, <<"token", "userinfo">>,
                               <<"token", "userinfo", "getid">>}
        /\ Len(resp.res.calls) >= 2 => resp.req.up.tokenOk
        /\ Len(resp.res.calls) >= 3 => resp.req.up.userOk
        /\ (\/ (Len(resp.res.calls) >= 1 /\ ~resp.req.up.tokenOk)
            \/ (Len(resp.res.calls) >= 2 /\ ~resp.req.up.userOk)
            \/ (Len(resp.res.calls) >= 3
                /\ (~resp.req.up.idOk \/ ~Truthy(resp.req.up.IdentityId))))
            => (/\ resp.res.status >= 400
                /\ resp.res.kind # "redirect"
                /\ resp.res.location = <<>>)

\* The userinfo call has failed after a successful token exchange: two calls were
\* made, GetId was not, and the answer is the 500.
UpstreamCallsInOrderWitness ==
    /\ resp.op = "callback"
    /\ variant = "federated"
    /\ resp.req.up.tokenOk
    /\ ~resp.req.up.userOk
    /\ resp.res.calls = <<"token", "userinfo">>
    /\ resp.res.status = 500

\* C16: every code the federated /callback mints embeds a non-empty federated
\* identity id, the IdentityId the federation service returned during this
\* callback; when the service returns no IdentityId, or the upstream tokens hold no
\* identity token, the callback fails and mints no code.
CodeEmbedsFederatedId ==
    (resp.op = "callback" /\ variant = "federated") =>
        /\ resp.res.status = 302 =>
            LET Embeds(payload) ==
                    /\ payload.ok
                    /\ Truthy(ObjGet(payload.val, K.cognitoIdentityId))
                    /\ ObjGet(payload.val, K.cognitoIdentityId) = resp.req.up.IdentityId
            IN  /\ Truthy(QueryGet(UrlQuery(resp.res.location), K.code))
                /\ Embeds(DecodeAuthCode(QueryGet(UrlQuery(resp.res.location), K.code).s))
        /\ (~Truthy(resp.req.up.IdentityId) \/ ~HasProps(resp.req.up.tokens.id_token))
            => (resp.res.status >= 400 /\ resp.res.location = <<>>)

\* The federated /callback has minted a code, and the code carries the IdentityId
\* of the federation answer.
CodeEmbedsFederatedIdWitness ==
    /\ resp.op = "callback"
    /\ variant = "federated"
    /\ resp.res.status = 302
    /\ resp.req.up.IdentityId = Str(<<73>>)
    /\ ObjGet(DecodeAuthCode(QueryGet(UrlQuery(resp.res.location), K.code).s).val,
              K.cognitoIdentityId) = Str(<<73>>)

\* C17: /token mints an access token only at the end of the protocol: for a
\* registered client, and for a code that a /callback of this process minted earlier
\* (after the upstream exchange and the identity resolution succeeded).  A 200 of
\* /token therefore never answers a request made before any /callback has run.
TokenOnlyAfterCallback ==
    (resp.op = "token" /\ resp.res.status = 200) =>
        /\ codec.pc = "redeemed"
        /\ resp.req.client_id.s \in DOMAIN registeredClients

\* C18: an /authorize with client_id and redirect_uri present and the client known
\* is answered 302 to the upstream authorize endpoint; in its query, client_id is the
\* configured upstream client id, response_type is "code", redirect_uri is this
\* proxy's own <origin>/callback whatever redirect_uri the request carried, and
\* state decodes to the relay state of the request.
AuthorizeRedirectsUpstream ==
    (/\ resp.op = "authorize"
     /\ Truthy(resp.req.client_id)
     /\ Truthy(resp.req.redirect_uri)
     /\ resp.req.client_id.s \in DOMAIN registeredClients)
    => LET Relays(stateData) ==
                /\ stateData.ok
                /\ ObjGet(stateData.val, IF variant = "direct" THEN K.originalClientId
                                         ELSE K.mcpClientId) = resp.req.client_id
                /\ ObjGet(stateData.val, IF variant = "direct" THEN K.originalRedirectUri
                                         ELSE K.mcpRedirectUri) = resp.req.redirect_uri
                /\ ObjGet(stateData.val, IF variant = "direct" THEN K.originalState
                                         ELSE K.mcpState) = resp.req.state
                /\ ObjGet(stateData.val, K.codeChallenge) = resp.req.code_challenge
                /\ ObjGet(stateData.val, K.codeChallengeMethod) = resp.req.code_challenge_method
           Upstream(q) ==
                /\ QueryGet(q, K.client_id) = Str(S_upstream_client)
                /\ QueryGet(q, K.response_type) = Str(S.code)
                /\ QueryGet(q, K.redirect_uri) = Str(S_origin \o S.callback_path)
                /\ Truthy(QueryGet(q, K.state))
                /\ Relays(JSONParse(QueryGet(q, K.state).s))
       IN  /\ resp.res.status = 302
           /\ StartsWith(resp.res.location,
                         (IF variant = "direct" THEN S.cognito_auth ELSE S.google_auth) \o <<63>>)
           /\ Upstream(UrlQuery(resp.res.location))

\* The handler that looks the client up has redirected a registered client that sent
\* a caller state and PKCE parameters.
AuthorizeRedirectsUpstreamWitness ==
    /\ variant = "direct"
    /\ resp.op = "authorize"
    /\ resp.res.status = 302
    /\ resp.req.client_id.s \in DOMAIN registeredClients
    /\ resp.req.state = Str(<<115>>)
    /\ resp.req.code_challenge # Null

\* C19: every failure response of /register and /token -- the malformed body of
\* /register and a request with another method than POST included -- is JSON with
\* an `error` member.
MachineErrorsAreJSON ==
    (resp.op \in {"register", "token"} /\ resp.res.status >= 400)
    => (resp.res.kind = "json" /\ resp.res.error # "")

\* C20: a code that /callback mints is redeemed at /token every time it is
\* presented -- again, later, with any redirect_uri, by any client_id that passes the
\* handler's client check: the answer is 200 with an access token, and the token is
\* bound to the identity the code embeds (looking the token up gives that identity).
MintedCodeAlwaysRedeems ==
    [][(/\ resp'.op = "token"
        /\ resp'.req.method = "POST"
        /\ resp'.req.grant_type = Str(S.authorization_code)
        /\ Truthy(resp'.req.client_id)
        /\ (variant = "direct" => resp'.req.client_id.s \in DOMAIN registeredClients)
        /\ Truthy(resp'.req.code)
        /\ DecodeAuthCode(resp'.req.code.s).ok
        /\ IdentityShape(variant, DecodeAuthCode(resp'.req.code.s).val))
        => (/\ resp'.res.status = 200
            /\ Len(resp'.res.access_token) > 0
            /\ verifyMCPToken(tokenStore', resp'.res.access_token)
                  = DecodeAuthCode(resp'.req.code.s).val)]_vars

\* C21 (as stated): a /callback that carries an `error` parameter, or lacks `code`
\* or `state`, is answered 400 with no upstream call and no code minted, the `error`
\* parameter winning over a code and a state; a failure of the token exchange or of
\* the identity resolution is answered 500.
CallbackRejectsEarly ==
    resp.op = "callback" =>
        /\ (\/ QueryGet(resp.req.query, K.error) # Null
            \/ ~Truthy(QueryGet(resp.req.query, K.code))
            \/ ~Truthy(QueryGet(resp.req.query, K.state)))
            => (resp.res.status = 400 /\ resp.res.calls = <<>> /\ resp.res.location = <<>>)
        /\ (/\ QueryGet(resp.req.query, K.error) = Null
            /\ Truthy(QueryGet(resp.req.query, K.code))
            /\ Truthy(QueryGet(resp.req.query, K.state))
            /\ \/ ~resp.req.up.tokenOk
               \/ ~resp.req.up.userOk
               \/ (variant = "federated"
                   /\ (\/ ~HasProps(resp.req.up.tokens.id_token)
                       \/ ~resp.req.up.idOk
                       \/ ~Truthy(resp.req.up.IdentityId))))
            => resp.res.status = 500

\* C21 (amended): a /callback that carries a non-empty `error` parameter, or lacks
\* `code` or `state`, is answered 400 with no upstream call and no code minted, the
\* `error` parameter winning over a code and a state; a failure of the token
\* exchange or of the identity resolution is answered 500.
CallbackRejectsNonEmptyError ==
    resp.op = "callback" =>
        /\ (\/ Truthy(QueryGet(resp.req.query, K.error))
            \/ ~Truthy(QueryGet(resp.req.query, K.code))
            \/ ~Truthy(QueryGet(resp.req.query, K.state)))
            => (resp.res.status = 400 /\ resp.res.calls = <<>> /\ resp.res.location = <<>>)
        /\ (/\ ~Truthy(QueryGet(resp.req.query, K.error))
            /\ Truthy(QueryGet(resp.req.query, K.code))
            /\ Truthy(QueryGet(resp.req.query, K.state))
            /\ \/ ~resp.req.up.tokenOk
               \/ ~resp.req.up.userOk
               \/ (variant = "federated"
                   /\ (\/ ~HasProps(resp.req.up.tokens.id_token)
                       \/ ~resp.req.up.idOk
                       \/ ~Truthy(resp.req.up.IdentityId))))
            => resp.res.status = 500

\* A /callback with `error`, a code and a well-formed state has been answered 400.
CallbackRejectsEarlyWitness ==
    /\ resp.op = "callback"
    /\ Truthy(QueryGet(resp.req.query, K.error))
    /\ Truthy(QueryGet(resp.req.query, K.code))
    /\ Truthy(QueryGet(resp.req.query, K.state))
    /\ JSONParse(QueryGet(resp.req.query, K.state).s).ok
    /\ resp.res.status = 400

\* C22: the client registry changes only in a /register answered 201 and the token
\* store only in a /token answered 200; every other request, and every rejected
\* one, leaves both as they were.
StoreFrame ==
    [][/\ registeredClients' # registeredClients
            => (resp'.op = "register" /\ resp'.res.status = 201)
       /\ tokenStore' # tokenStore
            => (resp'.op = "token" /\ resp'.res.status = 200)]_vars

\* A /callback has minted a code while both stores hold an entry.
StoreFrameWitness ==
    /\ resp.op = "callback"
    /\ resp.res.status = 302
    /\ DOMAIN registeredClients # {}
    /\ DOMAIN tokenStore # {}

\* C23: once a record is stored under client_id c, the registry holds c with that
\* same record in every later state: no step deletes an entry or rewrites one.
RegistryEntriesKept ==
    [][\A c \in DOMAIN registeredClients :
            /\ c \in DOMAIN registeredClients'
            /\ registeredClients'[c] = registeredClients[c]]_vars

\* C24: the 302 of a successful /callback goes to the redirect_uri given at
\* /authorize, with `code` the code just minted and `state` the caller state given at
\* /authorize, unchanged, whatever it was (the empty string included); when none was
\* given, the redirect has no `state` parameter.
CallbackReturnsCallerState ==
    (codec.pc = "called back" /\ resp.res.status = 302) =>
        /\ StartsWith(resp.res.location, codec.redirect_uri \o <<63>>)
        /\ Truthy(QueryGet(UrlQuery(resp.res.location), K.code))
        /\ DecodeAuthCode(QueryGet(UrlQuery(resp.res.location), K.code).s).ok
        /\ QueryGet(UrlQuery(resp.res.location), K.state) = codec.state


\* C25: when /callback handlings interleave at their upstream calls, with each
\* other and with /register and /token requests, every handling answers what
\* handleCallback answers to its own request handled alone: a minted code embeds
\* the identity resolved from its own upstream code, the redirect goes to the
\* redirect URI and caller state of its own relay state.  A handling awaiting its
\* first upstream answer can be resumed whatever the other handling is doing, and
\* no step of one handling changes what the other one keeps.
HandlingsIsolated ==
    /\ [](codec.pc = "serving" =>
            \A i \in 1..2 :
                /\ codec.h[i].pc = "token" => ENABLED ConcResume(i)
                /\ codec.h[i].pc = "done" =>
                    /\ codec.h[i].res =
                          handleCallback(variant, codec.h[i].query, codec.h[i].up, codec.h[i].t)
                    /\ codec.h[i].res.status = 302 =>
                        /\ StartsWith(codec.h[i].res.location,
                                      ObjGet(codec.h[i].stateData,
                                             IF variant = "direct" THEN K.originalRedirectUri
                                             ELSE K.mcpRedirectUri).s \o <<63>>)
                        /\ QueryGet(UrlQuery(codec.h[i].res.location), K.state) =
                              ObjGet(codec.h[i].stateData,
                                     IF variant = "direct" THEN K.originalState ELSE K.mcpState)
                        /\ \E d \in {DecodeAuthCode(
                                         QueryGet(UrlQuery(codec.h[i].res.location), K.code).s)} :
                              /\ d.ok
                              /\ ObjGet(d.val, IF variant = "direct" THEN K.sub
                                               ELSE K.googleUserId) = codec.h[i].up.user.sub
                              /\ variant = "federated" =>
                                    ObjGet(d.val, K.cognitoIdentityId) = codec.h[i].up.IdentityId)
    /\ [][codec.pc = "serving" =>
            /\ codec'.pc = "serving"
            /\ \A i \in 1..2 :
                  /\ codec'.h[i] # codec.h[i] => codec'.h[3 - i] = codec.h[3 - i]
                  /\ codec.h[i].pc # "free" =>
                        /\ codec'.h[i].query = codec.h[i].query
                        /\ codec'.h[i].up = codec.h[i].up
                        /\ codec'.h[i].stateData = codec.h[i].stateData]_vars

\* Handling 2 was redirected at time 1 with the code of its own user to b:/cb
\* while handling 1, begun at time 0 for another user and a:/cb, is still
\* awaiting the userinfo answer, and a /register or /token request was served.
HandlingsIsolatedWitness ==
    /\ codec.pc = "serving"
    /\ resp # NoResp
    /\ codec.h[1].pc = "userinfo" /\ codec.h[1].t = 0
    /\ codec.h[1].up = UpOk(UserA)
    /\ codec.h[2].pc = "done" /\ codec.h[2].t = 1
    /\ codec.h[2].res.status = 302
    /\ codec.h[2].up.user.sub # UserA.sub
    /\ StartsWith(codec.h[2].res.location, S_uri2 \o <<63>>)

RedirectTargetUnchecked ==
    /\ codec.pc = "authorized" => resp.res.status = 302
    /\ (codec.pc = "called back" /\ resp.req.up = UpOk(UserA)) =>
          /\ resp.res.status = 302
          /\ StartsWith(resp.res.location, codec.redirect_uri \o <<63>>)
          /\ DecodeAuthCode(QueryGet(UrlQuery(resp.res.location), K.code).s).ok

====
